---- MODULE Spec2Model ----
(***************************************************************************)
(* Model of the ingestion / caching engine of silver-octo-system:          *)
(*   - src/src/cache_manager.py: CacheManager, the schedule-aware cache of *)
(*     the market payload and of the crypto payload;                       *)
(*   - src/src/historical_data/database_manager.py: DatabaseManager, the   *)
(*     daily_prices table;                                                 *)
(*   - src/src/historical_data/historical_collector.py: HistoricalCollector,*)
(*     the paged backfill with its CollectionProgress checkpoint;          *)
(*   - src/src/crypto_historical_analyzer.py: the incremental update of    *)
(*     get_ethereum_analysis;                                              *)
(*   - src/src/crypto_history_collector.py: the technical indicators;      *)
(*   - src/src/telegram_bot.py: the two callers that refresh the crypto    *)
(*     cache, the scheduler's job and the refresh_crypto button.           *)
(* Time is an integer number of minutes since 00:00 of day 0; the model    *)
(* samples the clock at the instants of DayTimes on each day.              *)
(***************************************************************************)
EXTENDS Integers, Sequences, FiniteSets, TLC

VARIABLES now,       \* datetime.now(), minutes since 00:00 of day 0
          mktFile,   \* content of cache/market_data.json
          cryFile,   \* content of cache/crypto_data.json
          ret,       \* the last get_market_data / get_crypto_data call
          table,     \* rows of the daily_prices table
          dbRet,     \* the last save_daily_data / get_daily_data call
          lastWrite, \* history: the last record written for each key
          progress,  \* HistoricalCollector.progress of the collected coin
          checkpoint,\* data/historical/collection_progress.json
          api_stats, \* HistoricalCollector.api_stats
          run,       \* position and locals of the running collect_*_data
          collRet,   \* the last operation of the collector and its result
          stored,    \* rows the collector saved in daily_prices: their dates
                     \* are the days first .. last
          today,     \* datetime.utcnow().date() of the analyzer, a day number
          utcoffset, \* UTC offset of the analyzer's local time zone, minutes
          incRet,    \* the last incremental update of get_ethereum_analysis
          apiRet,    \* the last direct call of _make_api_request
          coin_prices, \* CryptoHistoryCollector: the dates of the coin's rows in
                     \* daily_prices and the shape of the provider's prices
          technical_indicators, \* the coin's rows in technical_indicators
          indRet,    \* the last call of the indicator computation
          statusRet, \* the last answer of get_collection_status for the coin
          progress_file, \* collection_progress.json shared by two collectors
          collectors,\* self.progress of the bitcoin and the ethereum collector
          refresher, \* position and locals of the two threads that refresh
                     \* the crypto cache
          cacheLen,  \* length of the text of cache/crypto_data.json
          count0,    \* history: update_count before the two refreshes
          nextRet    \* the last call of _get_next_*_update_time

vars == <<now, mktFile, cryFile, ret, table, dbRet, lastWrite,
          progress, checkpoint, api_stats, run, collRet, stored,
          today, utcoffset, incRet, apiRet,
          coin_prices, technical_indicators, indRet, statusRet,
          progress_file, collectors, refresher, cacheLen, count0, nextRet>>

cacheVars == <<now, mktFile, cryFile, ret>>

dbVars == <<table, dbRet, lastWrite>>

collVars == <<progress, checkpoint, api_stats, run, collRet, stored, apiRet,
             statusRet>>

incVars == <<today, utcoffset, incRet>>

indVars == <<coin_prices, technical_indicators, indRet>>

sharedVars == <<progress_file, collectors>>

raceVars == <<refresher, cacheLen, count0>>

-----------------------------------------------------------------------------
(* Bounds *)

\* the clock runs over the days 0 .. MaxDay-1
MaxDay == 2

\* the crypto cache is refreshed while its update_count is below MaxCount
MaxCount == 3

\* the dates of the price records are 1 .. MaxDate
MaxDate == 2

\* a save_daily_data batch holds 1 .. MaxBatch records
MaxBatch == 1

\* the daily_prices table holds at most MaxRows rows
MaxRows == 2

\* a collection is initialized over at most MaxTotalDays days
MaxTotalDays == 731

\* a process of the collector issues at most MaxRequests API requests
MaxRequests == 4

\* the collector process is interrupted and restarted at most MaxRestarts times
MaxRestarts == 1

\* the longest outage between two calls of the analyzer, in days
MaxOutage == 91

\* the clock of the analyzer runs up to the day MaxToday
MaxToday == 99

\* pages without data are recorded while errors is shorter than MaxErrors
MaxErrors == 2

\* a collector is asked for at most MaxApiCalls direct API requests
MaxApiCalls == 5

\* collect_historical_data is called on days up to MaxIndDay
MaxIndDay == 36

-----------------------------------------------------------------------------
(* Time *)

MinutesPerDay == 24 * 60

\* the sampled times of a day, in minutes after midnight: 07:35, 08:00,
\* 08:30, 08:35, 09:05, 20:00, 21:00, 23:55
DayTimes == {7*60 + 35, 8*60, 8*60 + 30, 8*60 + 35, 9*60 + 5,
             20*60, 21*60, 23*60 + 55}

Instants == {d * MinutesPerDay + m : d \in 0..(MaxDay - 1), m \in DayTimes}

\* datetime.date(), as a day number
DateOf(t) == t \div MinutesPerDay

\* datetime.hour
HourOf(t) == (t % MinutesPerDay) \div 60

\* datetime.replace(hour=h, minute=0, second=0, microsecond=0)
ReplaceHour(t, h) == DateOf(t) * MinutesPerDay + h * 60

SeqMax(s) == CHOOSE x \in {s[i] : i \in DOMAIN s} :
                 \A j \in DOMAIN s : s[j] <= x

SetMin(S) == CHOOSE x \in S : \A y \in S : x <= y

SetMax(S) == CHOOSE x \in S : \A y \in S : y <= x

-----------------------------------------------------------------------------
(* CacheManager.__init__ *)

update_hours == <<9, 21>>

crypto_update_hours == <<8, 20>>

\* timedelta(minutes=30) of _is_crypto_cache_valid
GraceMinutes == 30

-----------------------------------------------------------------------------
(* Payloads and cache files *)

\* What a collector call comes back with:
\*   "full"  a dict with at least one upstream source available,
\*   "nosrc" the dict the collectors build when every upstream source failed
\*           (each source field empty, still a non-empty dict),
\*   "empty" a falsy result ({}),
\*   "raise" an exception.
CollectorOutcomes == {"full", "nosrc", "empty", "raise"}

\* collect_all_metrics always builds a non-empty dict
MarketOutcomes == CollectorOutcomes \ {"empty"}

\* a payload is identified by its kind and by its collection timestamp
Payload(kind, ts) == [kind |-> kind, ts |-> ts]

\* None: no 'data' key, or no readable file
NoData == Payload("none", 0)

\* {}: the empty result
EmptyDict == Payload("empty", 0)

\* a payload of an earlier run of the program
OldPayload == Payload("full", -1)

\* Python truthiness of a payload: a non-empty dict
Truthy(p) == p.kind \in {"full", "nosrc"}

\* 'update_count' key absent
NoCount == -1

\* the 'last_update' field: an ISO timestamp of time t, or
\*   "absent"  key missing or empty string,
\*   "badstr"  a string that is no ISO timestamp,
\*   "nonstr"  a JSON value that is not a string (a non-zero number)
LastUpdate(k, t) == [k |-> k, t |-> t]

FileMissing == [kind |-> "missing", last_update |-> LastUpdate("absent", 0),
                data |-> NoData, update_count |-> NoCount]

FileUnparsable == [kind |-> "unparsable", last_update |-> LastUpdate("absent", 0),
                   data |-> NoData, update_count |-> NoCount]

JsonFile(lu, data, count) == [kind |-> "json", last_update |-> lu,
                              data |-> data, update_count |-> count]

\* contents of a cache file found at start-up that the program did not
\* write in this run
ForeignFiles == {FileUnparsable}
                \cup {JsonFile(LastUpdate(k, 0), OldPayload, NoCount) :
                         k \in {"absent", "badstr", "nonstr"}}

-----------------------------------------------------------------------------
(* Market cache *)

\* first hour of the list that is later than the current hour, -1 for None
NextUpdateHour(hours, current_hour) ==
    LET S == {i \in DOMAIN hours : current_hour < hours[i]}
    IN  IF S = {} THEN -1 ELSE hours[SetMin(S)]

\* first hour of the reversed list that is not later than the current hour,
\* -1 for None
LastPlannedHour(hours, current_hour) ==
    LET S == {i \in DOMAIN hours : current_hour >= hours[i]}
    IN  IF S = {} THEN -1 ELSE hours[SetMax(S)]

\* _is_cache_valid with the last comparison strict (>= written as >)
_is_cache_valid_strict(file, t) ==
    IF file.kind # "json" THEN FALSE
    ELSE IF file.last_update.k # "iso" THEN FALSE
    ELSE LET last_update == file.last_update.t
             current_hour == HourOf(t)
             last_update_hour == HourOf(last_update)
             next_update_hour == NextUpdateHour(update_hours, current_hour)
             last_planned_hour == LastPlannedHour(update_hours, current_hour)
         IN  IF DateOf(last_update) # DateOf(t) THEN FALSE
             ELSE IF next_update_hour = -1
                  THEN last_update_hour >= SeqMax(update_hours)
             ELSE IF last_planned_hour = -1
                  THEN /\ DateOf(last_update) = DateOf(t - MinutesPerDay)
                       /\ last_update_hour >= SeqMax(update_hours)
             ELSE last_update_hour > last_planned_hour

_is_cache_valid(file, t) ==
    IF file.kind = "missing" THEN FALSE
    ELSE IF file.kind = "unparsable" THEN FALSE      \* except Exception
    ELSE IF file.last_update.k = "absent" THEN FALSE
    ELSE IF file.last_update.k # "iso" THEN FALSE    \* except Exception
    ELSE LET last_update == file.last_update.t
             current_hour == HourOf(t)
             last_update_hour == HourOf(last_update)
             next_update_hour == NextUpdateHour(update_hours, current_hour)
             last_planned_hour == LastPlannedHour(update_hours, current_hour)
         IN  IF DateOf(last_update) # DateOf(t) THEN FALSE
             ELSE IF next_update_hour = -1
                  THEN last_update_hour >= SeqMax(update_hours)
             ELSE IF last_planned_hour = -1
                  THEN /\ DateOf(last_update) = DateOf(t - MinutesPerDay)
                       /\ last_update_hour >= SeqMax(update_hours)
             ELSE last_update_hour >= last_planned_hour

\* the file _save_cache writes: last_update and data, no update_count
_save_cache(data, t) == JsonFile(LastUpdate("iso", t), data, NoCount)

_load_cache(file) ==
    IF file.kind = "json" THEN file.data ELSE NoData

NoCall == [op |-> "none", force |-> FALSE, called |-> FALSE,
           outcome |-> "none", raised |-> FALSE, result |-> NoData,
           fresh |-> FALSE]

\* op: the operation; force: its force_update; called: the collector was
\* invoked, with outcome; raised: an exception left the operation; result:
\* the returned payload; fresh: the cache entry was valid and non-empty when
\* the operation was called
Call(op, force, called, outcome, raised, result, fresh) ==
    [op |-> op, force |-> force, called |-> called, outcome |-> outcome,
     raised |-> raised, result |-> result, fresh |-> fresh]

\* ServeFromCache without the test of force_update
ServeFromCache_noforce(force_update, valid, cached_data) ==
    valid /\ Truthy(cached_data)

\* the condition under which a get operation answers from the cache
ServeFromCache(force_update, valid, cached_data) ==
    ~force_update /\ valid /\ Truthy(cached_data)

get_market_data(force_update, outcome) ==
    LET cached_data == _load_cache(mktFile)
        fresh == _is_cache_valid(mktFile, now) /\ Truthy(cached_data)
        fresh_data == Payload(outcome, now)
    IN  /\ IF ServeFromCache(force_update, _is_cache_valid(mktFile, now),
                             cached_data)
           THEN /\ outcome = "full"
                /\ ret' = Call("get_market_data", force_update, FALSE, "none",
                               FALSE, cached_data, fresh)
                /\ mktFile' = mktFile
           ELSE IF outcome = "raise"
           THEN \* collect_all_metrics is not inside a try
                /\ ret' = Call("get_market_data", force_update, TRUE, outcome,
                               TRUE, NoData, fresh)
                /\ mktFile' = mktFile
           ELSE /\ ret' = Call("get_market_data", force_update, TRUE, outcome,
                               FALSE, fresh_data, fresh)
                /\ mktFile' = _save_cache(fresh_data, now)
        /\ UNCHANGED <<now, cryFile, dbVars, collVars, incVars, indVars,
                   sharedVars, raceVars, nextRet>>

-----------------------------------------------------------------------------
(* Crypto cache *)

\* "true" / "false": the returned bool; "raise": an exception other than
\* JSONDecodeError, ValueError, KeyError leaves the method
_is_crypto_cache_valid(file, t) ==
    IF file.kind = "missing" THEN "false"
    ELSE IF file.kind = "unparsable" THEN "false"          \* JSONDecodeError
    ELSE IF file.last_update.k = "absent" THEN "false"
    ELSE IF file.last_update.k = "badstr" THEN "false"     \* ValueError
    ELSE IF file.last_update.k = "nonstr" THEN "raise"     \* TypeError
    ELSE LET last_update == file.last_update.t
         IN  IF DateOf(last_update) # DateOf(t) THEN "false"
             ELSE IF \E i \in DOMAIN crypto_update_hours :
                        LET scheduled_time ==
                                ReplaceHour(t, crypto_update_hours[i])
                        IN  /\ scheduled_time <= last_update
                            /\ last_update <= scheduled_time + GraceMinutes
                  THEN "true"
                  ELSE "false"

\* NextUpdateCount that never reads the existing file
NextUpdateCount_reset(existing) == 1

\* update_count of the file _save_crypto_cache writes over the existing one
NextUpdateCount(existing) ==
    IF existing.kind = "json"
    THEN (IF existing.update_count = NoCount THEN 0
          ELSE existing.update_count) + 1
    ELSE 1      \* no file, or the bare except around json.load

_save_crypto_cache(data, existing, t) ==
    JsonFile(LastUpdate("iso", t), data, NextUpdateCount(existing))

_load_crypto_cache(file) ==
    IF file.kind = "json" THEN file.data ELSE NoData

get_crypto_data(force_update, outcome) ==
    LET valid == IF force_update THEN "false"
                 ELSE _is_crypto_cache_valid(cryFile, now)
        cached_data == _load_crypto_cache(cryFile)
        crypto_data == IF outcome = "empty" THEN EmptyDict
                       ELSE Payload(outcome, now)
        stale == IF Truthy(cached_data) THEN cached_data ELSE EmptyDict
        fresh == /\ _is_crypto_cache_valid(cryFile, now) = "true"
                 /\ Truthy(cached_data)
    IN  /\ IF valid = "raise"
           THEN \* _is_crypto_cache_valid is called outside the try
                /\ outcome = "full"
                /\ ret' = Call("get_crypto_data", force_update, FALSE, "none",
                               TRUE, NoData, fresh)
                /\ cryFile' = cryFile
           ELSE IF ServeFromCache(force_update, valid = "true", cached_data)
           THEN /\ outcome = "full"
                /\ ret' = Call("get_crypto_data", force_update, FALSE, "none",
                               FALSE, cached_data, fresh)
                /\ cryFile' = cryFile
           ELSE IF outcome = "raise" \/ ~Truthy(crypto_data)
           THEN \* except Exception, and the else branch of 'if crypto_data'
                /\ ret' = Call("get_crypto_data", force_update, TRUE, outcome,
                               FALSE, stale, fresh)
                /\ cryFile' = cryFile
           ELSE /\ NextUpdateCount(cryFile) <= MaxCount
                /\ ret' = Call("get_crypto_data", force_update, TRUE, outcome,
                               FALSE, crypto_data, fresh)
                /\ cryFile' = _save_crypto_cache(crypto_data, cryFile, now)
        /\ UNCHANGED <<now, mktFile, dbVars, collVars, incVars, indVars,
                   sharedVars, raceVars, nextRet>>

-----------------------------------------------------------------------------
(* DatabaseManager: the daily_prices table *)

Coins == {"bitcoin", "ethereum"}

\* record dates are ISO strings 'YYYY-MM-DD', which SQLite compares as text
\* in the order of the dates; a date is modelled by its day number
Dates == 1..MaxDate

\* a record without a usable 'date' (key missing: KeyError; None: NOT NULL)
NoDate == 0

\* SQL NULL / Python None
Null == -1

\* a key that the record dict does not hold
Absent == -2

\* the values of one value column of a record ('close' stands for the
\* eleven value columns, which save_daily_data all binds with record.get)
FieldValues == {Absent, 1, 2}

NoRecord == [date |-> NoDate, close |-> Absent]

Records == [date : Dates, close : FieldValues] \cup {NoRecord}

Batches == UNION {[1..n -> Records] : n \in 1..MaxBatch}

\* dict.get(key): None for a missing key
DictGet(v) == IF v = Absent THEN Null ELSE v

Row(coin_id, record) ==
    [coin_id |-> coin_id, date |-> record.date, close |-> DictGet(record.close)]

\* INSERT OR IGNORE: the conflicting row is kept
InsertOrReplace_ignore(rows, row) ==
    IF \E r \in rows : r.coin_id = row.coin_id /\ r.date = row.date
    THEN rows
    ELSE rows \cup {row}

\* INSERT OR REPLACE under UNIQUE(coin_id, date): the conflicting row is
\* deleted and the new row inserted
InsertOrReplace(rows, row) ==
    {r \in rows : ~(r.coin_id = row.coin_id /\ r.date = row.date)} \cup {row}

\* a loop that stops at the first record that raises
RECURSIVE SaveLoop_abort(_, _, _, _)
SaveLoop_abort(rows, coin_id, data, i) ==
    IF i > Len(data) THEN [rows |-> rows, count |-> 0, replaced |-> 0]
    ELSE IF data[i].date = NoDate
         THEN [rows |-> rows, count |-> 0, replaced |-> 0]
         ELSE LET rest == SaveLoop_abort(
                              InsertOrReplace(rows, Row(coin_id, data[i])),
                              coin_id, data, i + 1)
                  hit == \E r \in rows : /\ r.coin_id = coin_id
                                          /\ r.date = data[i].date
              IN  [rows |-> rest.rows, count |-> rest.count + 1,
                   replaced |-> rest.replaced + (IF hit THEN 1 ELSE 0)]

\* the for loop of save_daily_data from record i on: a record that raises
\* is logged and skipped; count is saved_count + updated_count (rowcount is 1
\* for every executed INSERT OR REPLACE); replaced is history, the number of
\* records that met a row of their key
RECURSIVE SaveLoop(_, _, _, _)
SaveLoop(rows, coin_id, data, i) ==
    IF i > Len(data) THEN [rows |-> rows, count |-> 0, replaced |-> 0]
    ELSE IF data[i].date = NoDate
         THEN SaveLoop(rows, coin_id, data, i + 1)
         ELSE LET rest == SaveLoop(InsertOrReplace(rows, Row(coin_id, data[i])),
                                   coin_id, data, i + 1)
                  hit == \E r \in rows : /\ r.coin_id = coin_id
                                          /\ r.date = data[i].date
              IN  [rows |-> rest.rows, count |-> rest.count + 1,
                   replaced |-> rest.replaced + (IF hit THEN 1 ELSE 0)]

\* history: the records of the batch overwrite what was written before
RECURSIVE NoteWrites(_, _, _, _)
NoteWrites(h, coin_id, data, i) ==
    IF i > Len(data) THEN h
    ELSE IF data[i].date = NoDate
         THEN NoteWrites(h, coin_id, data, i + 1)
         ELSE NoteWrites([h EXCEPT ![<<coin_id, data[i].date>>] = data[i]],
                         coin_id, data, i + 1)

\* dbRet.data is history: the batch, kept when one of its records could not
\* be written
save_daily_data(coin_id, data) ==
    LET saved == SaveLoop(table, coin_id, data, 1)
    IN  /\ Cardinality(saved.rows) <= MaxRows
        /\ table' = saved.rows
        /\ dbRet' = [op |-> "save_daily_data", coin_id |-> coin_id,
                     start_date |-> NoDate, end_date |-> NoDate,
                     count |-> saved.count, replaced |-> saved.replaced,
                     rows |-> <<>>,
                     data |-> IF \E i \in DOMAIN data : data[i] = NoRecord
                              THEN data ELSE <<>>]
        /\ lastWrite' = NoteWrites(lastWrite, coin_id, data, 1)
        /\ UNCHANGED <<cacheVars, collVars, incVars, indVars,
                   sharedVars, raceVars, nextRet>>

\* Selected with an exclusive upper bound (date < ?)
Selected_exclusive(rows, coin_id, start_date, end_date) ==
    {r \in rows : /\ r.coin_id = coin_id
                  /\ (start_date # NoDate => r.date >= start_date)
                  /\ (end_date # NoDate => r.date < end_date)}

\* WHERE coin_id = ? [AND date >= ?] [AND date <= ?]; a bound that is None
\* adds no condition
Selected(rows, coin_id, start_date, end_date) ==
    {r \in rows : /\ r.coin_id = coin_id
                  /\ (start_date # NoDate => r.date >= start_date)
                  /\ (end_date # NoDate => r.date <= end_date)}

\* ORDER BY date
RECURSIVE OrderByDate(_)
OrderByDate(rows) ==
    IF rows = {} THEN <<>>
    ELSE LET first == CHOOSE r \in rows : \A q \in rows : r.date <= q.date
         IN  <<first>> \o OrderByDate(rows \ {first})

get_daily_data(coin_id, start_date, end_date) ==
    /\ dbRet' = [op |-> "get_daily_data", coin_id |-> coin_id,
                 start_date |-> start_date, end_date |-> end_date,
                 count |-> 0, replaced |-> 0,
                 rows |-> OrderByDate(Selected(table, coin_id, start_date,
                                               end_date)),
                 data |-> <<>>]
    /\ UNCHANGED <<table, lastWrite, cacheVars, collVars, incVars, indVars,
                   sharedVars, raceVars, nextRet>>

-----------------------------------------------------------------------------
(* HistoricalCollector: the paged backfill of one coin.                    *)
(* collect_bitcoin_data and collect_ethereum_data are the same code for    *)
(* two coin ids; the model follows the job of one of them.  Dates are day  *)
(* numbers counted from start_dates[coin_id], which is day 0.              *)

max_days_per_request == 365

\* (datetime.now() - start_date).days when the collection is initialized
TotalDays == {20, MaxTotalDays}

None == "None"

ErrorMsg(kind, n) == [kind |-> kind, n |-> n]

\* last_error=None
NoError == ErrorMsg(None, 0)

\* 'bitcoin' not in self.progress
NoProgress == [status |-> "absent", total_days |-> 0, collected_days |-> 0,
               errors |-> <<>>, last_error |-> NoError,
               collection_start |-> None, collection_end |-> None]

\* the CollectionProgress built by initialize_collection
CollectionProgress(total_days) ==
    [status |-> "pending", total_days |-> total_days, collected_days |-> 0,
     errors |-> <<>>, last_error |-> NoError,
     collection_start |-> None, collection_end |-> None]

\* the share of the days that are still to collect
progress_percentage_remaining(p) ==
    IF p.total_days = 0 THEN <<0, 1>>
    ELSE <<(p.total_days - p.collected_days) * 100, p.total_days>>

\* progress_percentage, (collected_days / total_days) * 100, as the
\* fraction <<numerator, denominator>>: the float quotient and product are
\* monotone in the numerator
progress_percentage(p) ==
    IF p.total_days = 0 THEN <<0, 1>>
    ELSE <<p.collected_days * 100, p.total_days>>

\* (end_date - start_date).days of a progress: the difference that
\* initialize_collection stored as total_days
days_to_collect(p) == p.total_days

\* self.progress = {} and the api_stats of __init__
NoStats == [total_requests |-> 0, successful_requests |-> 0,
            failed_requests |-> 0, rate_limit_hits |-> 0]

\* collection_progress.json does not exist
CheckpointMissing == [kind |-> "missing", coins |-> NoProgress]

\* _save_progress: the file holds one JSON object per coin of self.progress
_save_progress(p) == [kind |-> "json", coins |-> p]

\* _load_progress: self.progress of a new HistoricalCollector
_load_progress(file) ==
    IF file.kind = "json" THEN file.coins ELSE NoProgress

\* no collect_*_data is running; requested, bad, errors0, collected0,
\* page, loaded and restarts are history: the days requested and the pages
\* without data of the run so far, len(errors) and collected_days when the
\* run began, the dates of the records of the last page that was saved,
\* whether the progress of the process came from the checkpoint file, and
\* the number of processes interrupted so far
Idle == [at |-> "idle", requests_needed |-> 0, total_collected |-> 0,
         current_request |-> 0, requested |-> 0, bad |-> 0, errors0 |-> 0,
         collected0 |-> 0, page |-> [first |-> 1, last |-> 0],
         loaded |-> FALSE, restarts |-> 0]

\* the locals of a returned collect_*_data are gone
Returned(r) == [Idle EXCEPT !.loaded = r.loaded, !.restarts = r.restarts]

NoCollCall == [op |-> "none", result |-> "none", days |-> 0, outcome |-> "none",
               from |-> "absent"]

CollCall(op, result, days, outcome) ==
    [op |-> op, result |-> result, days |-> days, outcome |-> outcome,
     from |-> progress.status]

\* the estimate None
NoTimedelta == [kind |-> None, minutes |-> <<0, 1>>]

\* an estimate that does not look at the status
estimated_time_remaining_anystatus(p, elapsed) ==
    IF p.collection_start = None THEN NoTimedelta
    ELSE IF p.collected_days = 0 THEN NoTimedelta
    ELSE [kind |-> "timedelta",
          minutes |-> <<elapsed * (p.total_days - p.collected_days),
                        p.collected_days>>]

\* estimated_time_remaining: None unless the job is in progress with a
\* collection_start and collected days, else the timedelta
\* (elapsed / collected_days) * (total_days - collected_days), a fraction
\* of minutes
estimated_time_remaining(p, elapsed) ==
    IF p.status # "in_progress" \/ p.collection_start = None
    THEN NoTimedelta
    ELSE IF p.collected_days = 0 THEN NoTimedelta
    ELSE [kind |-> "timedelta",
          minutes |-> <<elapsed * (p.total_days - p.collected_days),
                        p.collected_days>>]

NoStatusCall == [op |-> "none", status |-> "none", elapsed |-> 0,
                 progress_percentage |-> <<0, 1>>,
                 estimated_time_remaining |-> NoTimedelta,
                 reported |-> NoTimedelta]

\* get_collection_status: the entry of the coin.  A timedelta of zero is
\* falsy, so it is reported as None
get_collection_status(elapsed) ==
    /\ run.at = "idle"
    /\ statusRet' =
          IF progress.status = "absent"
          THEN [NoStatusCall EXCEPT !.op = "get_collection_status",
                                    !.status = "not_started",
                                    !.elapsed = elapsed]
          ELSE LET eta == estimated_time_remaining(progress, elapsed)
               IN  [op |-> "get_collection_status",
                    status |-> progress.status,
                    elapsed |-> elapsed,
                    progress_percentage |-> progress_percentage(progress),
                    estimated_time_remaining |-> eta,
                    reported |-> IF eta.minutes[1] = 0 THEN NoTimedelta
                                 ELSE eta]
    /\ UNCHANGED <<progress, checkpoint, api_stats, run, collRet, stored,
                   apiRet, cacheVars, dbVars, incVars, indVars,
                   sharedVars, raceVars, nextRet>>

\* initialize_collection: a fresh pending progress replaces the coin's
\* progress and is saved
Initialized(total_days) == CollectionProgress(total_days)

initialize_collection(total_days) ==
    /\ run.at = "idle"
    /\ total_days >= progress.total_days
    /\ progress' = Initialized(total_days)
    /\ checkpoint' = _save_progress(progress')
    /\ run' = Returned(run)
    /\ collRet' = CollCall("initialize_collection", "progress", 0, "none")
    /\ UNCHANGED <<api_stats, stored, apiRet, statusRet, cacheVars, dbVars,
                   incVars, indVars,
                   sharedVars, raceVars, nextRet>>

\* start_bitcoin_collection: initialize_collection, then in_progress
Started(total_days) ==
    [Initialized(total_days) EXCEPT !.status = "in_progress",
                                    !.collection_start = "set"]

start_bitcoin_collection(total_days) ==
    /\ run.at = "idle"
    /\ total_days >= progress.total_days
    /\ progress' = Started(total_days)
    /\ checkpoint' = _save_progress(progress')
    /\ run' = Returned(run)
    /\ collRet' = CollCall("start_bitcoin_collection", "progress", 0, "none")
    /\ UNCHANGED <<api_stats, stored, apiRet, statusRet, cacheVars, dbVars,
                   incVars, indVars,
                   sharedVars, raceVars, nextRet>>

\* the outcomes of a request as the collector tells them apart
ApiOutcomes == {"ok", "error", "rate limit"}

\* counters that leave failed requests out
_make_api_request_uncounted(stats, outcome) ==
    LET counted == [stats EXCEPT !.total_requests = @ + 1]
    IN  IF outcome = "ok"
        THEN [counted EXCEPT !.successful_requests = @ + 1]
        ELSE IF outcome = "rate limit"
             THEN [counted EXCEPT !.rate_limit_hits = @ + 1]
             ELSE counted

\* _make_api_request: the counters of api_stats after a request the
\* provider answered with outcome
_make_api_request(stats, outcome) ==
    LET counted == [stats EXCEPT !.total_requests = @ + 1]
    IN  IF outcome = "ok"
        THEN [counted EXCEPT !.successful_requests = @ + 1]
        ELSE LET failed == [counted EXCEPT !.failed_requests = @ + 1]
             IN  IF outcome = "rate limit"
                 THEN [failed EXCEPT !.rate_limit_hits = @ + 1]
                 ELSE failed

\* the value _make_api_request returns
Response(outcome) == IF outcome = "ok" THEN "response" ELSE None

\* what the provider does when it is called: it answers, or it raises an
\* exception; "rate limit" is the exception whose message contains
\* 'rate limit', "not found" and "error" are the others
ProviderOutcomes == ApiOutcomes \cup {"not found"}

Endpoints == {"market_chart", "coin_info", "unknown"}

\* params: a dict with the keys the endpoint reads, or the default None
Params == {"dict", None}

\* the body of the try block of _make_api_request: the events of the call
\* in their order and the outcome the except clause sees.  params['coin_id']
\* on params=None raises TypeError, an unknown endpoint raises ValueError;
\* neither reaches the provider
TryBlock(endpoint, params, outcome) ==
    IF endpoint = "unknown"
    THEN [events |-> <<"sleep 0.1">>, outcome |-> "error"]
    ELSE IF params = None
    THEN [events |-> <<"sleep 0.1">>, outcome |-> "error"]
    ELSE [events |-> <<"sleep 0.1", "provider">>, outcome |-> outcome]

\* an except clause that issues the call again after the cooldown
ExceptClause_reissue(outcome) ==
    IF outcome = "ok" THEN <<>>
    ELSE IF outcome = "rate limit" THEN <<"sleep 60", "provider">>
    ELSE <<>>

\* the except clause: time.sleep(60) on a rate limit, then return None
ExceptClause(outcome) ==
    IF outcome = "ok" THEN <<>>
    ELSE IF outcome = "rate limit" THEN <<"sleep 60">>
    ELSE <<>>

\* an except clause that catches the provider's exceptions only
Raises_unknown(endpoint, params, outcome) ==
    endpoint = "unknown" \/ (endpoint # "unknown" /\ params = None)

\* except Exception encloses the whole body: nothing is raised to the caller
Raises(endpoint, params, outcome) == FALSE

NoApiCall == [op |-> "none", endpoint |-> "none", params |-> None,
              outcome |-> "none", events |-> <<>>, result |-> None,
              raised |-> FALSE, before |-> NoStats]

\* a direct call of _make_api_request(endpoint, params); before is history,
\* the counters when the call began
make_api_request(endpoint, params, outcome) ==
    LET body == TryBlock(endpoint, params, outcome)
        raised == Raises(endpoint, params, outcome)
    IN  /\ run.at = "idle"
        /\ api_stats.total_requests < MaxApiCalls
        /\ api_stats' = IF raised
                        THEN [api_stats EXCEPT !.total_requests = @ + 1]
                        ELSE _make_api_request(api_stats, body.outcome)
        /\ apiRet' = [op |-> "_make_api_request", endpoint |-> endpoint,
                      params |-> params, outcome |-> outcome,
                      events |-> body.events \o ExceptClause(body.outcome),
                      result |-> IF raised THEN None
                                 ELSE Response(body.outcome),
                      raised |-> raised, before |-> api_stats]
        /\ UNCHANGED <<progress, checkpoint, run, collRet, stored,
                       statusRet, cacheVars, dbVars,
                   incVars, indVars,
                   sharedVars, raceVars, nextRet>>

Min(a, b) == IF a <= b THEN a ELSE b

\* a run of records or rows with one date each, the consecutive days
\* first .. last; none when first > last
DayRange(first, last) == [first |-> first, last |-> last]

Count(days) ==
    IF days.first > days.last THEN 0 ELSE days.last - days.first + 1

\* the dates of the n price points of a market_chart response: the last
\* n days up to the day end_date
PricePoints(n, end_date) == DayRange(end_date - n + 1, end_date)

\* _process_market_chart_data: the records of the price points, without
\* those dated before start_date (day 0)
_process_market_chart_data(prices) ==
    DayRange(IF prices.first < 0 THEN 0 ELSE prices.first, prices.last)

\* no row of the coin in daily_prices
NoRows == DayRange(1, 0)

\* save_daily_data of the records of a page: INSERT OR REPLACE leaves one
\* row for each date; the dates of every page end at end_date, so the dates
\* of the rows stay consecutive days
SavedDates(rows, daily_data) ==
    IF Count(daily_data) = 0 THEN rows
    ELSE IF Count(rows) = 0 THEN daily_data
         ELSE DayRange(Min(rows.first, daily_data.first),
                       IF rows.last >= daily_data.last
                       THEN rows.last ELSE daily_data.last)

\* the number of price points of a market_chart response to a request for
\* days days: none, one a day, or one more for the current price
PageSize(days, size) ==
    IF size = "none" \/ days <= 0 THEN 0
    ELSE IF size = "daily" THEN days ELSE days + 1

\* progress.collected_days >= progress.total_days * 0.95
CompletionNum == 19

CompletionDen == 20

ReachedThreshold(p) ==
    p.collected_days * CompletionDen >= p.total_days * CompletionNum

\* a collect_bitcoin_data that does not look at the status before it starts
collect_bitcoin_data_begin_noreturn(total_days, info_outcome) ==
    /\ run.at = "idle"
    /\ IF progress.status = "absent"
       THEN total_days \in TotalDays
       ELSE total_days = progress.total_days
    /\ LET p == IF progress.status = "absent"
                THEN Started(total_days) ELSE progress
       IN  /\ progress' = p
           /\ checkpoint' = IF progress.status = "absent"
                            THEN _save_progress(p) ELSE checkpoint
           /\ api_stats.total_requests < MaxRequests
           /\ api_stats' = _make_api_request(api_stats, info_outcome)
           /\ run' = [run EXCEPT
                 !.at = "loop",
                 !.requests_needed =
                     (days_to_collect(p) + max_days_per_request - 1)
                         \div max_days_per_request,
                 !.total_collected = 0,
                 !.current_request = 0,
                 !.requested = 0,
                 !.bad = 0,
                 !.errors0 = Len(p.errors),
                 !.collected0 = p.collected_days,
                 !.page = NoRows]
           /\ collRet' = CollCall("collect_bitcoin_data", "none",
                                  0, info_outcome)
    /\ UNCHANGED <<stored, apiRet, statusRet, cacheVars, dbVars,
                   incVars, indVars,
                   sharedVars, raceVars, nextRet>>

\* collect_bitcoin_data up to the page loop: the progress is started when
\* the coin has none, a completed job returns True, otherwise the coin
\* metadata is requested and the page loop is set up
collect_bitcoin_data_begin(total_days, info_outcome) ==
    /\ run.at = "idle"
    /\ IF progress.status = "absent"
       THEN total_days \in TotalDays
       ELSE total_days = progress.total_days
    /\ LET p == IF progress.status = "absent"
                THEN Started(total_days) ELSE progress
       IN  /\ progress' = p
           /\ checkpoint' = IF progress.status = "absent"
                            THEN _save_progress(p) ELSE checkpoint
           /\ IF p.status = "completed"
              THEN /\ info_outcome = "ok"
                   /\ collRet' = CollCall("collect_bitcoin_data", "True",
                                          0, "none")
                   /\ run' = Returned(run)
                   /\ UNCHANGED api_stats
              ELSE /\ api_stats.total_requests < MaxRequests
                   /\ api_stats' = _make_api_request(api_stats, info_outcome)
                   /\ run' = [run EXCEPT
                         !.at = "loop",
                         !.requests_needed =
                             (days_to_collect(p) + max_days_per_request - 1)
                                 \div max_days_per_request,
                         !.total_collected = 0,
                         !.current_request = 0,
                         !.requested = 0,
                         !.bad = 0,
                         !.errors0 = Len(p.errors),
                         !.collected0 = p.collected_days,
                         !.page = NoRows]
                   /\ collRet' = CollCall("collect_bitcoin_data", "none",
                                          0, info_outcome)
    /\ UNCHANGED <<stored, apiRet, statusRet, cacheVars, dbVars,
                   incVars, indVars,
                   sharedVars, raceVars, nextRet>>

\* the progress after a page whose request gave response and whose
\* processed records are daily_data
AfterPage_halt(p, response, daily_data, current_request) ==
    IF response # None /\ Count(daily_data) > 0
    THEN [p EXCEPT !.collected_days = @ + Count(daily_data)]
    ELSE [p EXCEPT !.status = "error"]

AfterPage(p, response, daily_data, current_request) ==
    IF response # None
    THEN IF Count(daily_data) > 0
         THEN [p EXCEPT !.collected_days = @ + Count(daily_data)]
         ELSE [p EXCEPT !.errors =
                   Append(@, ErrorMsg("no data", current_request))]
    ELSE [p EXCEPT !.errors =
                   Append(@, ErrorMsg("request failed", current_request)),
                   !.last_error = ErrorMsg("request failed", current_request)]

\* one iteration of the page loop of collect_bitcoin_data
collect_bitcoin_data_page(outcome, size) ==
    /\ run.at = "loop"
    /\ run.current_request < run.requests_needed
    /\ api_stats.total_requests < MaxRequests
    /\ LET current_request == run.current_request + 1
           days_for_this_request ==
               Min(max_days_per_request,
                   days_to_collect(progress) - run.total_collected)
           response == Response(outcome)
           n == PageSize(days_for_this_request, size)
           daily_data ==
               IF response # None
               THEN _process_market_chart_data(
                        PricePoints(n, progress.total_days))
               ELSE NoRows
           saved == response # None /\ Count(daily_data) > 0
       IN  /\ outcome # "ok" => size = "none"
           /\ days_for_this_request <= 0 => size = "none"
           /\ saved \/ Len(progress.errors) < MaxErrors
           /\ api_stats' = _make_api_request(api_stats, outcome)
           /\ progress' = AfterPage(progress, response, daily_data,
                                    current_request)
           /\ checkpoint' = IF saved THEN _save_progress(progress')
                            ELSE checkpoint
           /\ stored' = SavedDates(stored, daily_data)
           /\ run' = [run EXCEPT
                 !.current_request = current_request,
                 !.total_collected = IF saved THEN @ + Count(daily_data) ELSE @,
                 !.requested = @ + days_for_this_request,
                 !.bad = IF saved THEN @ ELSE @ + 1,
                 !.page = IF saved THEN daily_data ELSE @]
           /\ collRet' = CollCall("page", "none", days_for_this_request,
                                  outcome)
    /\ UNCHANGED <<apiRet, statusRet, cacheVars, dbVars,
                   incVars, indVars,
                   sharedVars, raceVars, nextRet>>

\* a completion check that asks for more than every day
Completed_beyond(p) ==
    IF p.collected_days > p.total_days
    THEN [p EXCEPT !.status = "completed", !.collection_end = "set"]
    ELSE [p EXCEPT !.status = "error",
                   !.last_error = ErrorMsg("collected only", p.collected_days)]

\* where the process can stop inside _save_progress: before
\* open(progress_file, 'w'), after it (the file is truncated, json.dump has
\* written nothing or a part of the text), or after the file is closed
SavePoints == {"before open", "after open", "after dump"}

\* collection_progress.json holds no complete JSON text
CheckpointPartial == [kind |-> "partial", coins |-> NoProgress]

\* the checkpoint file when _save_progress(p) over file stopped at point
InterruptedSave(file, p, point) ==
    IF point = "before open" THEN file
    ELSE IF point = "after open" THEN CheckpointPartial
    ELSE _save_progress(p)

\* an iteration of the page loop whose records were written to
\* daily_prices and whose _save_progress was cut short by the end of the
\* process at point, followed by the start of a new collector
save_progress_crash(size, point) ==
    /\ run.at = "loop"
    /\ run.current_request < run.requests_needed
    /\ api_stats.total_requests < MaxRequests
    /\ run.restarts < MaxRestarts
    /\ LET days_for_this_request ==
               Min(max_days_per_request,
                   days_to_collect(progress) - run.total_collected)
           n == PageSize(days_for_this_request, size)
           daily_data ==
               _process_market_chart_data(PricePoints(n, progress.total_days))
           p == AfterPage(progress, Response("ok"), daily_data,
                          run.current_request + 1)
       IN  /\ Count(daily_data) > 0
           /\ checkpoint' = InterruptedSave(checkpoint, p, point)
           /\ stored' = SavedDates(stored, daily_data)
           /\ progress' = _load_progress(checkpoint')
           /\ api_stats' = NoStats
           /\ run' = [Idle EXCEPT !.loaded = (checkpoint'.kind = "json"),
                                  !.restarts = run.restarts + 1]
           /\ collRet' = CollCall("crash", point, days_for_this_request,
                                  "ok")
           /\ apiRet' = NoApiCall
    /\ UNCHANGED <<statusRet, cacheVars, dbVars,
                   incVars, indVars,
                   sharedVars, raceVars, nextRet>>

\* the completion check of collect_bitcoin_data
Completed(p) ==
    IF ReachedThreshold(p)
    THEN [p EXCEPT !.status = "completed", !.collection_end = "set"]
    ELSE [p EXCEPT !.status = "error",
                   !.last_error = ErrorMsg("collected only", p.collected_days)]

collect_bitcoin_data_finish ==
    /\ run.at = "loop"
    /\ run.current_request >= run.requests_needed
    /\ progress' = Completed(progress)
    /\ checkpoint' = _save_progress(progress')
    /\ run' = [run EXCEPT !.at = "idle"]
    /\ collRet' = CollCall("finish",
                           IF ReachedThreshold(progress)
                           THEN IF progress.collection_start = None
                                THEN "raise" ELSE "True"
                           ELSE "False",
                           0, "none")
    /\ UNCHANGED <<api_stats, stored, apiRet, statusRet, cacheVars, dbVars,
                   incVars, indVars,
                   sharedVars, raceVars, nextRet>>

\* the process is interrupted and a new HistoricalCollector is constructed:
\* __init__ and _load_progress
Restart ==
    /\ run.restarts < MaxRestarts
    /\ progress' = _load_progress(checkpoint)
    /\ api_stats' = NoStats
    /\ run' = [Idle EXCEPT !.loaded = (checkpoint.kind = "json"),
                           !.restarts = run.restarts + 1]
    /\ collRet' = CollCall("restart", "none", 0, "none")
    /\ apiRet' = NoApiCall
    /\ UNCHANGED <<checkpoint, stored, statusRet, cacheVars, dbVars,
                   incVars, indVars,
                   sharedVars, raceVars, nextRet>>

InitColl ==
    /\ progress = NoProgress
    /\ checkpoint = CheckpointMissing
    /\ api_stats = NoStats
    /\ run = Idle
    /\ collRet = NoCollCall
    /\ stored = NoRows
    /\ apiRet = NoApiCall
    /\ statusRet = NoStatusCall

-----------------------------------------------------------------------------
(* CryptoHistoricalAnalyzer.get_ethereum_analysis: the incremental update   *)
(* of the ethereum series.  today is the UTC day number of the call, which *)
(* is made at 12:00 UTC.                                                   *)

\* the first day of the model: the day the series was backfilled
FirstDay == 5

\* the days by which the clock advances between two calls
Outages == {3, MaxOutage - 1, MaxOutage}

\* the UTC offsets of the local time zone, in minutes
UtcOffsets == {-300, 0}

\* datetime.utcnow()
UtcNow == today * MinutesPerDay + 12 * 60

\* get_last_daily_date: SELECT MAX(date) of the coin, None without a row
get_last_daily_date(rows, coin_id) ==
    LET dates == {r.date : r \in {q \in rows : q.coin_id = coin_id}}
    IN  IF dates = {} THEN NoDate ELSE SetMax(dates)

\* the first-load request and the cap of the incremental request, in days
FirstLoadDays == 365

MaxGapDays == 90

\* days_to_fetch without the cap
DaysToFetch_uncapped(last_date, utc_today) ==
    IF last_date = NoDate THEN FirstLoadDays
    ELSE IF utc_today - last_date >= 1
         THEN utc_today - last_date + 1
         ELSE 0

\* days_to_fetch; 0 stands for need_update = False
DaysToFetch(last_date, utc_today) ==
    IF last_date = NoDate THEN FirstLoadDays
    ELSE IF utc_today - last_date >= 1
         THEN Min(MaxGapDays, utc_today - last_date + 1)
         ELSE 0

\* the answers of the provider to get_coin_market_chart_by_id
HistoryOutcomes == {"daily", "current", "empty", "raise"}

\* history['prices'] for interval='daily': the timestamps, in minutes, of
\* 00:00 UTC of each of the last days days and, for "current", of now
HistoryPrices(days, outcome) ==
    IF outcome \in {"empty", "raise"} THEN <<>>
    ELSE LET midnights ==
                 [i \in 1..days |-> (today - days + i) * MinutesPerDay]
         IN  IF outcome = "current" THEN Append(midnights, UtcNow)
             ELSE midnights

\* datetime.fromtimestamp(ts_ms / 1000).date(): the date in local time
FromTimestampDate(ts) == DateOf(ts + utcoffset)

\* the records built from the prices
HistoryRecords(prices) ==
    [i \in 1..Len(prices) |->
        [date |-> FromTimestampDate(prices[i]), close |-> 1]]

\* a save that stops after the first record of the batch
SavedRows_first(rows, coin_id, data) ==
    IF Len(data) = 0 THEN rows
    ELSE InsertOrReplace(rows, Row(coin_id, data[1]))

\* the rows of the table after save_daily_data(coin_id, data), all at once:
\* each date of the batch keeps the row of the last record that holds it
SavedRows(rows, coin_id, data) ==
    LET dates == {data[i].date : i \in DOMAIN data} \ {NoDate}
        last(d) == SetMax({i \in DOMAIN data : data[i].date = d})
    IN  {r \in rows : ~(r.coin_id = coin_id /\ r.date \in dates)}
            \cup {Row(coin_id, data[last(d)]) : d \in dates}

NoIncCall == [op |-> "none", last_date |-> NoDate, days |-> 0,
              outcome |-> "none", saved |-> FALSE]

\* get_ethereum_analysis up to the read of the series
get_ethereum_analysis(outcome) ==
    LET last_date == get_last_daily_date(table, "ethereum")
        days_to_fetch == DaysToFetch(last_date, today)
        need_update == days_to_fetch > 0
        records == HistoryRecords(HistoryPrices(days_to_fetch, outcome))
        saved == need_update /\ Len(records) > 0
    IN  /\ ~need_update => outcome = "empty"
        /\ table' = IF saved
                    THEN SavedRows(table, "ethereum", records)
                    ELSE table
        /\ incRet' = [op |-> "get_ethereum_analysis",
                      last_date |-> last_date,
                      days |-> days_to_fetch,
                      outcome |-> IF need_update THEN outcome ELSE "none",
                      saved |-> saved]
        /\ UNCHANGED <<today, utcoffset, dbRet, lastWrite, cacheVars,
                       collVars, indVars,
                   sharedVars, raceVars, nextRet>>

\* the clock of the analyzer advances by an outage of k days
NextDay(k) ==
    /\ today + k <= MaxToday
    /\ today' = today + k
    /\ incRet' = NoIncCall
    /\ UNCHANGED <<utcoffset, dbVars, cacheVars, collVars, indVars,
                   sharedVars, raceVars, nextRet>>

InitInc ==
    /\ today = FirstDay
    /\ utcoffset = 0
    /\ incRet = NoIncCall

-----------------------------------------------------------------------------
(* CryptoHistoryCollector: the daily prices of one coin and its technical  *)
(* indicators.  The provider's price of a day is a function of the day,    *)
(* PriceOf(shape, d); prices are integers and the means and quotients of   *)
(* the indicators are exact fractions, with the values inf and nan of the  *)
(* float arithmetic kept apart.  Of the indicator columns the model keeps  *)
(* ma_7 and rsi_14.                                                        *)

Shapes == {"flat", "rising", "falling", "zigzag"}

PriceOf(shape, d) ==
    IF shape = "flat" THEN 50
    ELSE IF shape = "rising" THEN 50 + d
    ELSE IF shape = "falling" THEN 200 - d
    ELSE 50 + (d % 2)

\* the days of a get_coin_market_chart_by_id request
HistoryDays == {10, 25, 31}

\* the days on which collect_historical_data is called
CallDays == {MaxIndDay - 5, MaxIndDay - 4, MaxIndDay}

\* a float: a fraction n/d with d > 0, inf, or nan
Num(n, d) == [k |-> "num", n |-> n, d |-> d]

Inf == [k |-> "inf", n |-> 0, d |-> 1]

NaN == [k |-> "nan", n |-> 0, d |-> 1]

\* x / y for x, y >= 0
FDiv(x, y) ==
    IF x.k = "nan" \/ y.k = "nan" THEN NaN
    ELSE IF y.n = 0 THEN (IF x.n = 0 THEN NaN ELSE Inf)
    ELSE Num(x.n * y.d, x.d * y.n)

\* 1 + x
FOnePlus(x) ==
    IF x.k = "num" THEN Num(x.d + x.n, x.d) ELSE x

\* 100 / x for x >= 1
FHundredOver(x) ==
    IF x.k = "nan" THEN NaN
    ELSE IF x.k = "inf" THEN Num(0, 1)
    ELSE Num(100 * x.d, x.n)

\* 100 - x
FHundredMinus(x) ==
    IF x.k = "num" THEN Num(100 * x.d - x.n, x.d) ELSE x

\* the rows of the coin ORDER BY date: the dates in ascending order
OrderedDates(dates) ==
    IF dates = {} THEN <<>>
    ELSE LET lo == SetMin(dates)
             hi == SetMax(dates)
         IN  SelectSeq([i \in 1..(hi - lo + 1) |-> lo + i - 1],
                       LAMBDA d : d \in dates)

\* coin_prices.diff(): the first delta is missing
Delta(price, i) == IF i = 1 THEN 0 ELSE price[i] - price[i - 1]

\* delta.where(delta > 0, 0); the missing first delta is not > 0
Gain(price, i) ==
    IF i = 1 THEN 0 ELSE IF Delta(price, i) > 0 THEN Delta(price, i) ELSE 0

\* -delta.where(delta < 0, 0)
Loss(price, i) ==
    IF i = 1 THEN 0 ELSE IF Delta(price, i) < 0 THEN 0 - Delta(price, i) ELSE 0

RECURSIVE RollingSum(_, _, _)
\* the sum of f[i - window + 1 .. i]
RollingSum(f, i, window) ==
    IF window = 0 THEN 0 ELSE f[i] + RollingSum(f, i - 1, window - 1)

\* series.rolling(window).mean() at row i: nan before row window
RollingMean(f, i, window) ==
    IF i < window THEN NaN ELSE Num(RollingSum(f, i, window), window)

RECURSIVE GainSum(_, _, _)
GainSum(price, i, window) ==
    IF window = 0 THEN 0
    ELSE Gain(price, i) + GainSum(price, i - 1, window - 1)

RECURSIVE LossSum(_, _, _)
LossSum(price, i, window) ==
    IF window = 0 THEN 0
    ELSE Loss(price, i) + LossSum(price, i - 1, window - 1)

\* the rolling means of the gains and of the losses at row i
AvgGain(price, i, period) ==
    IF i < period THEN NaN ELSE Num(GainSum(price, i, period), period)

AvgLoss(price, i, period) ==
    IF i < period THEN NaN ELSE Num(LossSum(price, i, period), period)

\* _calculate_rsi at row i: rs = gain / loss, rsi = 100 - (100 / (1 + rs))
_calculate_rsi(price, i, period) ==
    LET gain == AvgGain(price, i, period)
        loss == AvgLoss(price, i, period)
    IN  FHundredMinus(FHundredOver(FOnePlus(FDiv(gain, loss))))

\* len(df) < 30: the series is too short for the indicators
MinRows == 30

RsiPeriod == 14

\* the frame of _calculate_and_save_indicators: one row for each date, with
\* the sums of the gains and losses of its RSI window
Frame(shape, dates) ==
    LET date == OrderedDates(dates)
        price == [i \in DOMAIN date |-> PriceOf(shape, date[i])]
    IN  [i \in DOMAIN date |->
           [date |-> date[i],
            price_usd |-> price[i],
            ma_7 |-> RollingMean(price, i, 7),
            rsi_14 |-> _calculate_rsi(price, i, RsiPeriod),
            gain |-> AvgGain(price, i, RsiPeriod),
            loss |-> AvgLoss(price, i, RsiPeriod)]]

\* a computation without a minimum length
IndicatorRows_unguarded(shape, dates) ==
    LET df == Frame(shape, dates)
    IN  {[date |-> df[i].date, ma_7 |-> df[i].ma_7, rsi_14 |-> df[i].rsi_14] :
            i \in {j \in DOMAIN df : df[j].ma_7.k # "nan"}}

\* the rows _calculate_and_save_indicators writes: none for a series
\* shorter than 30 rows, else one for each row whose ma_7 is not nan
IndicatorRows(shape, dates) ==
    IF Cardinality(dates) < MinRows THEN {}
    ELSE LET df == Frame(shape, dates)
         IN  {[date |-> df[i].date, ma_7 |-> df[i].ma_7,
               rsi_14 |-> df[i].rsi_14] :
                 i \in {j \in DOMAIN df : df[j].ma_7.k # "nan"}}

\* INSERT OR REPLACE INTO technical_indicators: one row for each date
ReplaceIndicators(old, new) ==
    {r \in old : \A q \in new : q.date # r.date} \cup new

NoIndCall == [op |-> "none", today |-> 0, days |-> 0, outcome |-> "none",
              written |-> 0, raised |-> FALSE,
              df |-> <<>>]

\* _save_daily_data of a market_chart response with interval='daily' for
\* the last days days: INSERT OR REPLACE, one row for each date
HistoryDates(days, t) == (t - days + 1)..t

\* collect_historical_data(days) for the coin on the day t: the history
\* and the coin info are requested; when both arrive the daily prices are
\* saved and the indicators are computed, else the coin is noted as failed
collect_historical_data(days, t, outcome) ==
    /\ t >= indRet.today
    /\ IF outcome = "ok"
       THEN LET dates == coin_prices.dates \cup HistoryDates(days, t)
                rows == IndicatorRows(coin_prices.shape, dates)
            IN  /\ coin_prices' = [coin_prices EXCEPT !.dates = dates]
                /\ technical_indicators' =
                       ReplaceIndicators(technical_indicators, rows)
                /\ indRet' = [op |-> "collect_historical_data", today |-> t,
                              days |-> days, outcome |-> outcome,
                              written |-> Cardinality(rows),
                              raised |-> FALSE,
                              df |-> IF Cardinality(dates) < MinRows
                                     THEN <<>>
                                     ELSE Frame(coin_prices.shape, dates)]
       ELSE /\ indRet' = [NoIndCall EXCEPT !.op = "collect_historical_data",
                                           !.today = t, !.days = days,
                                           !.outcome = outcome]
            /\ UNCHANGED <<coin_prices, technical_indicators,
                   sharedVars, raceVars, nextRet>>
    /\ UNCHANGED <<cacheVars, dbVars, collVars, incVars,
                   sharedVars, raceVars, nextRet>>

\* _calculate_and_save_indicators(coin_id) called on its own
_calculate_and_save_indicators ==
    LET rows == IndicatorRows(coin_prices.shape, coin_prices.dates)
    IN  /\ technical_indicators' =
               ReplaceIndicators(technical_indicators, rows)
        /\ indRet' = [NoIndCall EXCEPT
                         !.op = "_calculate_and_save_indicators",
                         !.today = indRet.today,
                         !.written = Cardinality(rows),
                         !.df = IF Cardinality(coin_prices.dates) < MinRows
                                THEN <<>>
                                ELSE Frame(coin_prices.shape, coin_prices.dates)]
        /\ UNCHANGED <<coin_prices, cacheVars, dbVars, collVars, incVars,
                   sharedVars, raceVars, nextRet>>

\* _init_database: empty tables
InitInd ==
    /\ coin_prices = [shape |-> "flat", dates |-> {}]
    /\ technical_indicators = {}
    /\ indRet = NoIndCall

-----------------------------------------------------------------------------
(* Clock *)

LaterInstants == {t \in Instants : t > now}

\* time passes between two calls: to the next sampled instant, or by a day
Tick ==
    /\ LaterInstants # {}
    /\ \E t \in LaterInstants :
          /\ t = SetMin(LaterInstants) \/ t = now + MinutesPerDay
          /\ now' = t
    /\ ret' = NoCall
    /\ UNCHANGED <<mktFile, cryFile, dbVars, collVars, incVars, indVars,
                   sharedVars, raceVars, nextRet>>

-----------------------------------------------------------------------------
(* Specification of the cache *)

NoDbCall == [op |-> "none", coin_id |-> "none", start_date |-> NoDate,
             end_date |-> NoDate, count |-> 0, replaced |-> 0, rows |-> <<>>,
             data |-> <<>>]

-----------------------------------------------------------------------------
(* Two HistoricalCollector processes over one collection_progress.json:    *)
(* one runs collect_bitcoin_data, the other collect_ethereum_data.         *)

\* the days of the jobs of the two collectors
OwnerDays == 20

\* self.progress = {}: a dict is a function of its keys
NoCoins == <<>>

\* d[key] = value
Put(d, key, value) ==
    [k \in DOMAIN d \cup {key} |-> IF k = key THEN value ELSE d[k]]

\* _save_progress of a collector: open(progress_file, 'w') and json.dump of
\* one object for each coin of its self.progress
_save_progress_file(self_progress) ==
    [kind |-> "json", coins |-> self_progress]

\* _load_progress of a collector: self.progress holds the coins of the file
_load_progress_file(file) ==
    IF file.kind = "json" THEN file.coins ELSE NoCoins

\* the collector of coin_id: where its collect_*_data stands and its
\* self.progress
NewCollector(file) == [at |-> "idle", progress |-> _load_progress_file(file)]

\* collect_*_data of the collector of coin_id up to the page loop: a coin
\* without progress is started and saved, a completed job returns
owner_collect_begin(coin_id) ==
    LET self == collectors[coin_id]
        started == Put(self.progress, coin_id, Started(OwnerDays))
    IN  /\ self.at = "idle"
        /\ IF coin_id \notin DOMAIN self.progress
           THEN /\ collectors' = [collectors EXCEPT
                       ![coin_id] = [at |-> "loop", progress |-> started]]
                /\ progress_file' = _save_progress_file(started)
           ELSE /\ \/ self.progress[coin_id].status = "completed"
                   \/ self.progress[coin_id].collected_days < OwnerDays
                /\ collectors' = [collectors EXCEPT ![coin_id].at =
                       IF self.progress[coin_id].status = "completed"
                       THEN "idle" ELSE "loop"]
                /\ UNCHANGED progress_file
        /\ UNCHANGED <<cacheVars, dbVars, collVars, incVars, indVars,
                       raceVars, nextRet>>

\* the page of the job: the records are counted and the progress is saved,
\* or the failure is appended to errors
owner_collect_page(coin_id, outcome) ==
    LET self == collectors[coin_id]
        p == self.progress[coin_id]
        response == Response(outcome)
        daily_data ==
            IF response # None
            THEN _process_market_chart_data(
                     PricePoints(PageSize(OwnerDays, "daily"), OwnerDays))
            ELSE NoRows
        after == [self.progress EXCEPT
                     ![coin_id] = AfterPage(p, response, daily_data, 1)]
    IN  /\ self.at = "loop"
        /\ response # None \/ Len(p.errors) < MaxErrors
        /\ collectors' = [collectors EXCEPT
               ![coin_id] = [at |-> "check", progress |-> after]]
        /\ progress_file' = IF response # None
                            THEN _save_progress_file(after)
                            ELSE progress_file
        /\ UNCHANGED <<cacheVars, dbVars, collVars, incVars, indVars,
                       raceVars, nextRet>>

\* the completion check of the job and its save
owner_collect_finish(coin_id) ==
    LET self == collectors[coin_id]
        after == [self.progress EXCEPT ![coin_id] = Completed(@)]
    IN  /\ self.at = "check"
        /\ collectors' = [collectors EXCEPT
               ![coin_id] = [at |-> "idle", progress |-> after]]
        /\ progress_file' = _save_progress_file(after)
        /\ UNCHANGED <<cacheVars, dbVars, collVars, incVars, indVars,
                       raceVars, nextRet>>

\* the process of the collector of coin_id ends and a new one is started:
\* __init__ loads the file
owner_restart(coin_id) ==
    /\ collectors[coin_id] # NewCollector(progress_file)
    /\ collectors' = [collectors EXCEPT
           ![coin_id] = NewCollector(progress_file)]
    /\ UNCHANGED <<progress_file, cacheVars, dbVars, collVars, incVars,
                   indVars, raceVars, nextRet>>

\* no checkpoint file and no collector of this kind
InitShared ==
    /\ progress_file = [kind |-> "missing", coins |-> NoCoins]
    /\ collectors = <<>>

-----------------------------------------------------------------------------
(* Two threads refresh the crypto cache through get_crypto_data(force_update *)
(* =True): _auto_publish_crypto_analysis, a job of the BackgroundScheduler, *)
(* and the refresh_crypto branch of button_callback on the event loop.     *)
(* CacheManager holds no lock.                                             *)

Threads == {"scheduler", "request"}

\* a thread that enters get_crypto_data; at is its position in
\* get_crypto_data and _save_crypto_cache, data, last_update, update_count
\* and len are its cache_data and the length of its text, saved tells that
\* it wrote the file.  refresher holds the threads that have entered
NoRefresh == [at |-> "idle", data |-> NoData,
              last_update |-> LastUpdate("absent", 0),
              update_count |-> NoCount, len |-> 0, saved |-> FALSE]

\* the envelope a thread has built
EnvelopeOf(r) == JsonFile(r.last_update, r.data, r.update_count)

\* get_crypto_data(force_update=True) up to the call of _save_crypto_cache:
\* collect_all_crypto_data gives a payload, or nothing is saved
refresh_collect(thread, outcome, len) ==
    LET crypto_data == IF outcome = "empty" THEN EmptyDict
                       ELSE Payload(outcome, now)
    IN  /\ thread \notin DOMAIN refresher
        /\ refresher' = Put(refresher, thread,
               IF outcome = "raise" \/ ~Truthy(crypto_data)
               THEN [NoRefresh EXCEPT !.at = "done"]
               ELSE [NoRefresh EXCEPT !.at = "collected",
                                      !.data = crypto_data,
                                      !.len = len])
        /\ UNCHANGED <<cacheLen, count0, cacheVars, dbVars, collVars,
                       incVars, indVars, sharedVars, nextRet>>

\* _save_crypto_cache: cache_data is built and update_count is read from
\* the existing file
refresh_read(thread) ==
    /\ thread \in DOMAIN refresher
    /\ refresher[thread].at = "collected"
    /\ NextUpdateCount(cryFile) <= MaxCount
    /\ refresher' = [refresher EXCEPT
           ![thread].at = "read",
           ![thread].last_update = LastUpdate("iso", now),
           ![thread].update_count = NextUpdateCount(cryFile)]
    /\ UNCHANGED <<cacheLen, count0, cacheVars, dbVars, collVars,
                   incVars, indVars, sharedVars, nextRet>>

\* open(self.crypto_cache_file, 'w'): the file is truncated
refresh_open(thread) ==
    /\ thread \in DOMAIN refresher
    /\ refresher[thread].at = "read"
    /\ refresher' = [refresher EXCEPT ![thread].at = "opened"]
    /\ cryFile' = FileUnparsable
    /\ cacheLen' = 0
    /\ UNCHANGED <<now, mktFile, ret, count0, dbVars, collVars,
                   incVars, indVars, sharedVars, nextRet>>

\* json.dump and the close of the file: the text is written from offset 0
\* over the file; a longer text of the other writer keeps its end, which
\* leaves no JSON document
refresh_dump(thread) ==
    /\ thread \in DOMAIN refresher
    /\ refresher[thread].at = "opened"
    /\ refresher' = [refresher EXCEPT ![thread].at = "done",
                                      ![thread].saved = TRUE]
    /\ cryFile' = IF cacheLen > refresher[thread].len
                  THEN FileUnparsable
                  ELSE EnvelopeOf(refresher[thread])
    /\ cacheLen' = IF cacheLen > refresher[thread].len
                   THEN cacheLen ELSE refresher[thread].len
    /\ UNCHANGED <<now, mktFile, ret, count0, dbVars, collVars,
                   incVars, indVars, sharedVars, nextRet>>

\* no thread refreshes
InitRace ==
    /\ refresher = <<>>
    /\ cacheLen = 0
    /\ count0 = 0

-----------------------------------------------------------------------------
(* CacheManager: the instant of the next scheduled refresh *)

\* the loop with >= in the place of >
FirstLater_nonstrict(hours, t) ==
    LET S == {i \in DOMAIN hours : ReplaceHour(t, hours[i]) >= t}
    IN  IF S = {} THEN -1 ELSE ReplaceHour(t, hours[SetMin(S)])

\* the loop over hours: the first now.replace(hour=hour, minute=0, ...)
\* that is later than t, -1 when the loop ends without a return
FirstLater(hours, t) ==
    LET S == {i \in DOMAIN hours : ReplaceHour(t, hours[i]) > t}
    IN  IF S = {} THEN -1 ELSE ReplaceHour(t, hours[SetMin(S)])

\* _get_next_update_time at now = t
_get_next_update_time(t) ==
    IF FirstLater(update_hours, t) # -1
    THEN FirstLater(update_hours, t)
    ELSE ReplaceHour(t + MinutesPerDay, update_hours[1])

\* _get_next_crypto_update_time at now = t: the loop runs over the sorted
\* hours, tomorrow's slot is crypto_update_hours[0]
_get_next_crypto_update_time(t) ==
    LET sorted == SortSeq(crypto_update_hours, LAMBDA a, b : a < b)
    IN  IF FirstLater(sorted, t) # -1
        THEN FirstLater(sorted, t)
        ELSE ReplaceHour(t + MinutesPerDay, crypto_update_hours[1])

\* a call of _get_next_update_time
next_update_time ==
    /\ nextRet' = [op |-> "_get_next_update_time", now |-> now,
                   result |-> _get_next_update_time(now)]
    /\ UNCHANGED <<cacheVars, dbVars, collVars, incVars, indVars,
                   sharedVars, raceVars>>

\* a call of _get_next_crypto_update_time
next_crypto_update_time ==
    /\ nextRet' = [op |-> "_get_next_crypto_update_time", now |-> now,
                   result |-> _get_next_crypto_update_time(now)]
    /\ UNCHANGED <<cacheVars, dbVars, collVars, incVars, indVars,
                   sharedVars, raceVars>>

\* no call yet
InitNextTime == nextRet = [op |-> "none", now |-> 0, result |-> 0]

\* _init_database: an empty daily_prices table
InitTable ==
    /\ table = {}
    /\ dbRet = NoDbCall
    /\ lastWrite = [k \in Coins \X Dates |-> NoRecord]

Init ==
    /\ now = SetMin(Instants)
    /\ mktFile \in {FileMissing} \cup ForeignFiles
    /\ cryFile \in {FileMissing} \cup ForeignFiles
    /\ ret = NoCall
    /\ InitTable
    /\ InitColl
    /\ InitInc
    /\ InitInd
    /\ InitShared
    /\ InitRace
    /\ InitNextTime

Next ==
    \/ Tick
    \/ \E force_update \in BOOLEAN, outcome \in MarketOutcomes :
          get_market_data(force_update, outcome)
    \/ \E force_update \in BOOLEAN, outcome \in CollectorOutcomes :
          get_crypto_data(force_update, outcome)

Spec == Init /\ [][Next]_vars

-----------------------------------------------------------------------------
(* Specification of the store *)

InitDb ==
    /\ now = SetMin(Instants)
    /\ mktFile = FileMissing
    /\ cryFile = FileMissing
    /\ ret = NoCall
    /\ InitTable
    /\ InitColl
    /\ InitInc
    /\ InitInd
    /\ InitShared
    /\ InitRace
    /\ InitNextTime

NextDb ==
    \/ \E coin_id \in Coins, data \in Batches :
          save_daily_data(coin_id, data)
    \/ \E coin_id \in Coins, start_date \in Dates \cup {NoDate},
          end_date \in Dates \cup {NoDate} :
          get_daily_data(coin_id, start_date, end_date)

SpecDb == InitDb /\ [][NextDb]_vars

\* the store under batches that hold records which cannot be written
\* the batches of NextDb and batches of three records of which at least one
\* cannot be written
NextDbFail ==
    \E coin_id \in Coins,
       data \in Batches \cup
                {b \in [1..3 -> [date : Dates, close : {1}] \cup {NoRecord}] :
                    \E i \in 1..3 : b[i] = NoRecord} :
        save_daily_data(coin_id, data)

SpecDbFail == InitDb /\ [][NextDbFail]_vars

-----------------------------------------------------------------------------
(* Specification of the collector *)

InitColl0 ==
    /\ now = SetMin(Instants)
    /\ mktFile = FileMissing
    /\ cryFile = FileMissing
    /\ ret = NoCall
    /\ InitTable
    /\ InitColl
    /\ InitInc
    /\ InitInd
    /\ InitShared
    /\ InitRace
    /\ InitNextTime

NextColl ==
    \/ \E total_days \in TotalDays : initialize_collection(total_days)
    \/ \E total_days \in TotalDays : start_bitcoin_collection(total_days)
    \/ \E total_days \in TotalDays \cup {0}, info_outcome \in ApiOutcomes :
          collect_bitcoin_data_begin(total_days, info_outcome)
    \/ \E outcome \in ApiOutcomes, size \in {"none", "daily", "current"} :
          collect_bitcoin_data_page(outcome, size)
    \/ collect_bitcoin_data_finish
    \/ \E size \in {"daily", "current"}, point \in SavePoints :
          save_progress_crash(size, point)
    \/ Restart

SpecColl == InitColl0 /\ [][NextColl]_vars

-----------------------------------------------------------------------------
(* Specification of the API boundary of the collector *)

InitApi == InitColl0

NextApi ==
    \/ \E endpoint \in Endpoints, params \in Params,
          outcome \in ProviderOutcomes :
          make_api_request(endpoint, params, outcome)
    \/ Restart

SpecApi == InitApi /\ [][NextApi]_vars

-----------------------------------------------------------------------------
(* Specification of the progress report: the collector has loaded the     *)
(* progress of the coin from a checkpoint                                  *)

InitStatus ==
    /\ now = SetMin(Instants)
    /\ mktFile = FileMissing
    /\ cryFile = FileMissing
    /\ ret = NoCall
    /\ InitTable
    /\ InitInc
    /\ InitInd
    /\ progress \in [status : {"pending", "in_progress", "completed", "error"},
                     total_days : {0, 20},
                     collected_days : {0, 19, 20, 21},
                     errors : {<<>>},
                     last_error : {NoError},
                     collection_start : {None, "set"},
                     collection_end : {None}]
    /\ checkpoint = _save_progress(progress)
    /\ api_stats = NoStats
    /\ run = [Idle EXCEPT !.loaded = TRUE]
    /\ collRet = NoCollCall
    /\ stored = NoRows
    /\ apiRet = NoApiCall
    /\ statusRet = NoStatusCall
    /\ InitShared
    /\ InitRace
    /\ InitNextTime

\* elapsed: datetime.now() - collection_start when the status is asked
\* for, in minutes
NextStatus ==
    \E elapsed \in {0, 90} : get_collection_status(elapsed)

SpecStatus == InitStatus /\ [][NextStatus]_vars

-----------------------------------------------------------------------------
(* Specification of the incremental update *)

\* the ethereum series was backfilled up to FirstDay
InitInc0 ==
    /\ now = SetMin(Instants)
    /\ mktFile = FileMissing
    /\ cryFile = FileMissing
    /\ ret = NoCall
    /\ table = {Row("ethereum", [date |-> FirstDay, close |-> 1])}
    /\ dbRet = NoDbCall
    /\ lastWrite = [k \in Coins \X Dates |-> NoRecord]
    /\ InitColl
    /\ today = FirstDay
    /\ utcoffset \in UtcOffsets
    /\ incRet = NoIncCall
    /\ InitInd
    /\ InitShared
    /\ InitRace
    /\ InitNextTime

NextInc ==
    \/ \E outcome \in HistoryOutcomes : get_ethereum_analysis(outcome)
    \/ \E k \in Outages : NextDay(k)

SpecInc == InitInc0 /\ [][NextInc]_vars

-----------------------------------------------------------------------------
(* Specification of the indicators *)

\* the provider's prices follow one of the shapes
InitInd0 ==
    /\ now = SetMin(Instants)
    /\ mktFile = FileMissing
    /\ cryFile = FileMissing
    /\ ret = NoCall
    /\ InitTable
    /\ InitColl
    /\ InitInc
    /\ coin_prices \in [shape : Shapes, dates : {{}}]
    /\ technical_indicators = {}
    /\ indRet = NoIndCall
    /\ InitShared
    /\ InitRace
    /\ InitNextTime

NextInd ==
    \/ \E days \in HistoryDays, t \in CallDays, outcome \in {"ok", "raise"} :
          collect_historical_data(days, t, outcome)
    \/ _calculate_and_save_indicators

SpecInd == InitInd0 /\ [][NextInd]_vars

-----------------------------------------------------------------------------
(* Specification of two collectors over one checkpoint file *)

\* both collectors are constructed while the file does not exist
InitShared0 ==
    /\ now = SetMin(Instants)
    /\ mktFile = FileMissing
    /\ cryFile = FileMissing
    /\ ret = NoCall
    /\ InitTable
    /\ InitColl
    /\ InitInc
    /\ InitInd
    /\ progress_file = [kind |-> "missing", coins |-> NoCoins]
    /\ collectors = [coin_id \in Coins |-> NewCollector(progress_file)]
    /\ InitRace
    /\ InitNextTime

NextShared ==
    \/ \E coin_id \in Coins : owner_collect_begin(coin_id)
    \/ \E coin_id \in Coins, outcome \in {"ok", "error"} :
          owner_collect_page(coin_id, outcome)
    \/ \E coin_id \in Coins : owner_collect_finish(coin_id)
    \/ \E coin_id \in Coins : owner_restart(coin_id)

SpecShared == InitShared0 /\ [][NextShared]_vars

-----------------------------------------------------------------------------
(* Specification of two threads that refresh the crypto cache *)

\* the cache file before the refreshes: none, or the envelope of an earlier
\* refresh
InitRace0 ==
    /\ now \in Instants
    /\ mktFile = FileMissing
    /\ cryFile \in {FileMissing} \cup
          {JsonFile(LastUpdate("iso", SetMin(Instants)), OldPayload, c) :
              c \in 1..(MaxCount - 2)}
    /\ ret = NoCall
    /\ InitTable
    /\ InitColl
    /\ InitInc
    /\ InitInd
    /\ InitShared
    /\ InitNextTime
    /\ refresher = <<>>
    /\ cacheLen \in IF cryFile = FileMissing THEN {0} ELSE {1, 2}
    /\ count0 = IF cryFile.kind = "json" THEN cryFile.update_count ELSE 0

\* len: the length of the JSON text of the envelope of a thread
NextRace ==
    \/ \E thread \in Threads, outcome \in CollectorOutcomes,
          len \in {1, 2} : refresh_collect(thread, outcome, len)
    \/ \E thread \in Threads : refresh_read(thread)
    \/ \E thread \in Threads : refresh_open(thread)
    \/ \E thread \in Threads : refresh_dump(thread)

SpecRace == InitRace0 /\ [][NextRace]_vars

-----------------------------------------------------------------------------
(* Specification of the next scheduled refresh *)

\* datetime.now() of the calls: each hour of each day at the minutes 0, 1
\* and 59
InitNext0 ==
    /\ now \in {d * MinutesPerDay + h * 60 + m :
                   d \in 0..(MaxDay - 1), h \in 0..23, m \in {0, 1, 59}}
    /\ mktFile = FileMissing
    /\ cryFile = FileMissing
    /\ ret = NoCall
    /\ InitTable
    /\ InitColl
    /\ InitInc
    /\ InitInd
    /\ InitShared
    /\ InitRace
    /\ InitNextTime

NextNextTime ==
    \/ next_update_time
    \/ next_crypto_update_time

SpecNext == InitNext0 /\ [][NextNextTime]_vars

-----------------------------------------------------------------------------
(* Properties of the cache *)

\* an entry the program wrote by a refresh: parsable, timestamped, non-empty
WrittenByRefresh(file) ==
    /\ file.kind = "json"
    /\ file.last_update.k = "iso"
    /\ Truthy(file.data)

\* a scheduled refresh hour of hours has elapsed between T and Now
SlotElapsed(T, Now, hours) ==
    \E d \in 0..MaxDay, i \in DOMAIN hours :
        LET slot == d * MinutesPerDay + hours[i] * 60
        IN  T < slot /\ slot <= Now

\* minutes after midnight
TimeOfDay(t) == t % MinutesPerDay

\* C1: after a get operation has refreshed and written its cache, a following
\* call with force_update=False made before any scheduled refresh hour
\* elapses returns the cached payload and does not invoke the collector.
C1_NoRedundantCall ==
    [][ /\ ( /\ ret'.op = "get_market_data"
             /\ ~ret'.force
             /\ WrittenByRefresh(mktFile)
             /\ ~SlotElapsed(mktFile.last_update.t, now, update_hours) )
           => (~ret'.called /\ ret'.result = mktFile.data)
        /\ ( /\ ret'.op = "get_crypto_data"
             /\ ~ret'.force
             /\ WrittenByRefresh(cryFile)
             /\ ~SlotElapsed(cryFile.last_update.t, now, crypto_update_hours) )
           => (~ret'.called /\ ret'.result = cryFile.data)
      ]_vars

\* C2: with scheduled hours [9,21], a market entry written at 09:05 is valid
\* at every query time of the same day before 21:00 and invalid at every
\* query time from 21:00 on, until the next write.
C2_ValidUntilEvening ==
    ( /\ WrittenByRefresh(mktFile)
      /\ TimeOfDay(mktFile.last_update.t) = 9 * 60 + 5 )
    => ( _is_cache_valid(mktFile, now)
         <=> ( /\ DateOf(now) = DateOf(mktFile.last_update.t)
               /\ HourOf(now) < 21 ) )

\* a non-forced get_market_data at 20:00 answered from the entry of 09:05
C2_Witness ==
    /\ ret.op = "get_market_data"
    /\ ~ret.force
    /\ ~ret.called
    /\ WrittenByRefresh(mktFile)
    /\ TimeOfDay(mktFile.last_update.t) = 9 * 60 + 5
    /\ HourOf(now) = 20
    /\ ret.result = mktFile.data

\* C3: when the query time is before the first scheduled hour of today, a
\* market entry is valid iff it was written yesterday at or after the last
\* scheduled hour max(H).
C3_YesterdayFallback ==
    ( /\ mktFile.kind = "json"
      /\ mktFile.last_update.k = "iso"
      /\ HourOf(now) < update_hours[1] )
    => ( _is_cache_valid(mktFile, now)
         <=> ( /\ DateOf(mktFile.last_update.t) = DateOf(now) - 1
               /\ HourOf(mktFile.last_update.t) >= SeqMax(update_hours) ) )

\* C4: for both caches an entry written at T stops being valid as soon as a
\* scheduled refresh hour has elapsed between T and Now; a crypto entry
\* written inside the 08:00 grace window is valid until 20:00 and invalid at
\* every query from 20:00 on, until the next write.
C4_StaleAfterSlot ==
    /\ ( /\ WrittenByRefresh(mktFile)
         /\ SlotElapsed(mktFile.last_update.t, now, update_hours) )
       => ~_is_cache_valid(mktFile, now)
    /\ ( /\ WrittenByRefresh(cryFile)
         /\ SlotElapsed(cryFile.last_update.t, now, crypto_update_hours) )
       => _is_crypto_cache_valid(cryFile, now) # "true"
    /\ ( /\ WrittenByRefresh(cryFile)
         /\ TimeOfDay(cryFile.last_update.t) >= 8 * 60
         /\ TimeOfDay(cryFile.last_update.t) <= 8 * 60 + GraceMinutes )
       => ( _is_crypto_cache_valid(cryFile, now) = "true"
            <=> ( /\ DateOf(now) = DateOf(cryFile.last_update.t)
                  /\ HourOf(now) < 20 ) )

\* C5: a call of get_market_data or get_crypto_data with force_update=True
\* always invokes the underlying collector, whatever the state and validity
\* of the cache entry.
C5_ForceInvokes ==
    (ret.op \in {"get_market_data", "get_crypto_data"} /\ ret.force)
    => ret.called

\* a forced get_crypto_data that called the collector over a valid entry
C5_Witness ==
    /\ ret.op = "get_crypto_data"
    /\ ret.force
    /\ ret.fresh
    /\ ret.called

\* C6: when a refresh fails (the collector raises, or every upstream source
\* fails) and a cached payload exists, the get operation returns that payload
\* and the persisted entry still holds it; it returns an empty result only
\* when no cached payload exists.
C6_StaleOnFailure ==
    [][ /\ ( /\ ret'.op = "get_market_data"
             /\ ret'.called
             /\ ret'.outcome \in {"raise", "nosrc", "empty"}
             /\ WrittenByRefresh(mktFile) )
           => ( /\ ~ret'.raised
                /\ ret'.result = mktFile.data
                /\ mktFile'.data = mktFile.data )
        /\ ( /\ ret'.op = "get_crypto_data"
             /\ ret'.called
             /\ ret'.outcome \in {"raise", "nosrc", "empty"}
             /\ WrittenByRefresh(cryFile) )
           => ( /\ ~ret'.raised
                /\ ret'.result = cryFile.data
                /\ cryFile'.data = cryFile.data )
        /\ ( ret'.op = "get_market_data" /\ ret'.result = EmptyDict )
           => ~Truthy(_load_cache(mktFile))
        /\ ( ret'.op = "get_crypto_data" /\ ret'.result = EmptyDict )
           => ~Truthy(_load_crypto_cache(cryFile))
      ]_vars

\* C7: get_market_data and get_crypto_data never raise to their caller, for
\* every collector outcome and every content of the cache file.
C7_NeverRaises ==
    ret.op \in {"get_market_data", "get_crypto_data"} => ~ret.raised

\* update_count of a file, 0 when there is no parsable entry or no count
CountOf(file) ==
    IF file.kind = "json" /\ file.update_count # NoCount
    THEN file.update_count
    ELSE 0

-----------------------------------------------------------------------------
(* Properties of the store *)

RowsOfKey(coin_id, date) ==
    {r \in table : r.coin_id = coin_id /\ r.date = date}

\* C9: save_daily_data is a last-writer-wins upsert keyed by (coin_id, date):
\* after any sequence of writes there is at most one row per key, and that
\* row holds exactly the values of the last write for the key, a field
\* absent or null in the last write being null in the row.
C9_Upsert ==
    \A coin_id \in Coins, date \in Dates :
        LET last == lastWrite[<<coin_id, date>>]
        IN  IF last = NoRecord
            THEN RowsOfKey(coin_id, date) = {}
            ELSE RowsOfKey(coin_id, date) =
                    {[coin_id |-> coin_id, date |-> date,
                      close |-> IF last.close \in {Absent, Null} THEN Null
                                ELSE last.close]}

\* a record written over the row of its key has left a single row for the
\* key, whose field is null because the record does not hold it
C9_Witness ==
    /\ dbRet.op = "save_daily_data"
    /\ dbRet.replaced >= 1
    /\ \E r \in table : /\ r.coin_id = dbRet.coin_id
                        /\ r.close = Null
                        /\ lastWrite[<<r.coin_id, r.date>>].close = Absent

\* C10: get_daily_data(coin_id, start_date, end_date) returns exactly the
\* stored rows of that coin whose date lies in the inclusive range
\* [start_date, end_date] (all rows of the coin when a bound is omitted),
\* ordered by date ascending.
C10_QueryRange ==
    dbRet.op = "get_daily_data" =>
        LET rows == dbRet.rows
            expected == {r \in table :
                            /\ r.coin_id = dbRet.coin_id
                            /\ (dbRet.start_date = NoDate
                                \/ dbRet.start_date <= r.date)
                            /\ (dbRet.end_date = NoDate
                                \/ r.date <= dbRet.end_date)}
        IN  /\ {rows[i] : i \in DOMAIN rows} = expected
            /\ Len(rows) = Cardinality(expected)
            /\ \A i, j \in DOMAIN rows : i < j => rows[i].date < rows[j].date

\* a query over [1, 2] that returned the rows of both boundary dates
C10_Witness ==
    /\ dbRet.op = "get_daily_data"
    /\ dbRet.start_date = 1
    /\ dbRet.end_date = 2
    /\ Len(dbRet.rows) = 2

-----------------------------------------------------------------------------
(* Properties of the collector *)

\* the status changes the specification of the job allows
StatusEdges == {<<"pending", "in_progress">>, <<"in_progress", "completed">>,
                <<"in_progress", "error">>, <<"error", "in_progress">>}

\* C11: in every run of the collector the status of a job changes only along
\* pending -> in_progress, in_progress -> completed, in_progress -> error
\* and error -> in_progress: no step of collect_bitcoin_data and no reload
\* of the checkpoint takes a job from pending or from error straight to
\* completed or error.
C11_StatusTransitions ==
    [][(/\ collRet'.op \in {"collect_bitcoin_data", "page", "finish", "restart"}
        /\ progress.status # "absent"
        /\ progress'.status # progress.status)
       => <<progress.status, progress'.status>> \in StatusEdges]_vars


\* C12: a collector restarted after an interruption resumes from the saved
\* checkpoint: the days requested by a run that began with the
\* collected_days loaded from the checkpoint total at most total_days minus
\* those collected_days.
C12_ResumeFromCheckpoint ==
    (run.loaded /\ run.at = "loop" /\ run.collected0 > 0)
        => \/ run.requested = 0
           \/ run.requested <= progress.total_days - run.collected0


\* C13: progress is saved after every processed page: after each iteration
\* of the page loop, whether the page succeeded, returned no data or failed,
\* the checkpoint file holds the collected_days, errors and last_error of
\* the progress in memory.
C13_SavedAfterEveryPage ==
    collRet.op = "page"
        => /\ checkpoint.kind = "json"
           /\ checkpoint.coins.collected_days = progress.collected_days
           /\ checkpoint.coins.errors = progress.errors
           /\ checkpoint.coins.last_error = progress.last_error


\* C14: when the page sequence of a job is exhausted, the status becomes
\* completed iff collected_days >= 0.95 * total_days and collect returns
\* True; otherwise the status becomes error, last_error holds a cause and
\* collect returns False.
C14_CompletionCheck ==
    collRet.op = "finish"
        => IF ReachedThreshold(progress)
           THEN progress.status = "completed" /\ collRet.result = "True"
           ELSE /\ progress.status = "error"
                /\ progress.last_error # NoError
                /\ collRet.result = "False"


\* C15: a failed page is recorded in errors and does not halt the job: an
\* iteration of the page loop leaves the status as it was and, while the
\* run lasts and when its completion check is made, errors has grown by one
\* entry for each page that failed or held no data; the completion check is
\* made only after all ceil(total_days / 365) pages were requested.
C15_FailedPageRecorded ==
    /\ collRet.op = "page" => progress.status = collRet.from
    /\ (run.at = "loop" \/ collRet.op = "finish")
           => Len(progress.errors) = run.errors0 + run.bad
    /\ collRet.op = "finish"
           => /\ run.current_request * max_days_per_request
                     >= progress.total_days
              /\ (run.current_request - 1) * max_days_per_request
                     < progress.total_days

\* the first page of a three-page job failed, the other two were requested
\* and the completion check found the job completed
C15_Witness ==
    /\ collRet.op = "finish"
    /\ run.current_request = 3
    /\ run.bad = 1
    /\ progress.errors[Len(progress.errors)].n = 1
    /\ progress.status = "completed"


\* C16: when the provider answers a page request with a rate-limit failure,
\* rate_limit_hits grows by one and the hit is transient: the page is asked
\* again, so the iteration adds no entry to errors and leaves last_error.
C16_RateLimitRetried ==
    [][(collRet'.op = "page" /\ collRet'.outcome = "rate limit")
       => /\ api_stats'.rate_limit_hits = api_stats.rate_limit_hits + 1
          /\ Len(progress'.errors) = Len(progress.errors)
          /\ progress'.last_error = progress.last_error]_vars


\* a <= b for the fractions a and b with positive denominators
FracLeq(a, b) == a[1] * b[2] <= b[1] * a[2]

\* C17: within one job run the progress_percentage read at successive
\* _save_progress calls is non-decreasing: no step of the run lowers the
\* saved collected_days or changes the saved total_days.
C17_ProgressMonotone ==
    [][(run.at = "loop" /\ collRet'.op \in {"page", "finish"})
       => /\ checkpoint'.coins.total_days = checkpoint.coins.total_days
          /\ checkpoint'.coins.collected_days
                 >= checkpoint.coins.collected_days
          /\ FracLeq(progress_percentage(checkpoint.coins),
                     progress_percentage(checkpoint'.coins))]_vars

\* the second page of a run has been saved: the checkpoint holds the days
\* of both pages
C17_Witness ==
    /\ collRet.op = "page"
    /\ run.current_request = 2
    /\ run.bad = 0
    /\ checkpoint.coins.collected_days = run.collected0 + run.total_collected
    /\ run.total_collected > max_days_per_request


\* C18: a job whose status is error can be retried: start_bitcoin_collection
\* and the entry of collect_bitcoin_data take it back to in_progress, and no
\* step of the retry leaves collected_days lower than it was.
C18_RetryKeepsDays ==
    [][(/\ progress.status = "error"
        /\ collRet'.op \in {"start_bitcoin_collection", "collect_bitcoin_data",
                            "page", "finish"})
       => /\ progress'.collected_days >= progress.collected_days
          /\ collRet'.op \in {"start_bitcoin_collection",
                              "collect_bitcoin_data"}
                 => progress'.status = "in_progress"]_vars

-----------------------------------------------------------------------------
(* Properties of the incremental update *)

\* the dates of the stored rows of the ethereum series
StoredDates == {r.date : r \in {q \in table : q.coin_id = "ethereum"}}

\* C19: incremental update of an already-backfilled series: with
\* gap = today - lastStoredDate, no provider request is made when gap < 1,
\* and when gap >= 1 the request is for min(90, gap + 1) days; so a series
\* stored up to today - 3 asks for at most 4 days and no gap asks for more
\* than 90 days.
C19_IncrementalRequest ==
    [][(incRet'.op = "get_ethereum_analysis" /\ StoredDates # {})
       => LET gap == today - SetMax(StoredDates)
          IN  IF gap < 1
              THEN /\ incRet'.outcome = "none"
                   /\ incRet'.days = 0
                   /\ table' = table
              ELSE /\ incRet'.outcome # "none"
                   /\ incRet'.days = (IF gap + 1 < 90 THEN gap + 1 ELSE 90)
                   /\ incRet'.days <= 90
                   /\ gap = 3 => incRet'.days <= 4]_vars

\* the series ended three days ago and the update asked for four days
C19_Witness ==
    /\ incRet.op = "get_ethereum_analysis"
    /\ today - incRet.last_date = 3
    /\ incRet.days = 4
    /\ incRet.saved

-----------------------------------------------------------------------------
(* The API boundary: claims C21 to C23 *)

\* the call reached the provider and the provider raised outcome
ProviderRaised(r, outcome) ==
    /\ r.op = "_make_api_request"
    /\ r.endpoint # "unknown"
    /\ r.params # None
    /\ r.outcome = outcome

ProviderCalls(events) ==
    Cardinality({i \in DOMAIN events : events[i] = "provider"})

\* C21: each invocation of _make_api_request makes at most one provider
\* call, and the call comes after the inter-request delay; on a rate-limit
\* failure it sleeps the cooldown and then returns None to the caller
\* without issuing the call again.
C21_OneCallPerRequest ==
    apiRet.op = "_make_api_request" =>
        /\ ProviderCalls(apiRet.events) <= 1
        /\ \A i \in DOMAIN apiRet.events :
              apiRet.events[i] = "provider" =>
                  i > 1 /\ apiRet.events[i - 1] = "sleep 0.1"
        /\ ProviderRaised(apiRet, "rate limit") =>
              /\ apiRet.events = <<"sleep 0.1", "provider", "sleep 60">>
              /\ apiRet.result = None

C21_Witness ==
    /\ ProviderRaised(apiRet, "rate limit")
    /\ apiRet.events = <<"sleep 0.1", "provider", "sleep 60">>
    /\ apiRet.result = None
    /\ api_stats.rate_limit_hits = apiRet.before.rate_limit_hits + 1

\* the call failed: the provider raised, the endpoint is unknown, or params
\* is missing
FailedCall(r) ==
    /\ r.op = "_make_api_request"
    /\ \/ r.endpoint = "unknown"
       \/ r.params = None
       \/ r.outcome \in {"rate limit", "not found", "error"}

\* C22: _make_api_request never raises to its caller: for every provider
\* exception (rate limit, not found, transport error), for an unknown
\* endpoint and for missing params it returns None and counts the request
\* as failed.
C22_NeverRaises ==
    /\ ~apiRet.raised
    /\ FailedCall(apiRet) =>
          /\ apiRet.result = None
          /\ api_stats.failed_requests = apiRet.before.failed_requests + 1

C22_Witness ==
    /\ apiRet.op = "_make_api_request"
    /\ apiRet.endpoint = "unknown"
    /\ apiRet.params = None
    /\ ~apiRet.raised
    /\ apiRet.result = None
    /\ apiRet.events = <<"sleep 0.1">>
    /\ api_stats.failed_requests = apiRet.before.failed_requests + 1

\* C23: after any sequence of completed _make_api_request calls,
\* total_requests = successful_requests + failed_requests and
\* rate_limit_hits <= failed_requests, and each call increases
\* total_requests by exactly one.
C23_CountersConsistent ==
    /\ api_stats.total_requests =
          api_stats.successful_requests + api_stats.failed_requests
    /\ api_stats.rate_limit_hits <= api_stats.failed_requests
    /\ apiRet.op = "_make_api_request" =>
          api_stats.total_requests = apiRet.before.total_requests + 1

C23_Witness ==
    /\ apiRet.op = "_make_api_request"
    /\ api_stats.total_requests = MaxApiCalls
    /\ api_stats.successful_requests = 2
    /\ api_stats.failed_requests = 3
    /\ api_stats.rate_limit_hits = 1

-----------------------------------------------------------------------------
(* The backfill job end to end: claims C24 and C25 *)

\* C24: for an instrument with no prior data and a range that fits in one
\* page (at most 365 days), when the single page returns one record per
\* day of the range, the job ends with collected_days equal to the number
\* of days of the range and status completed.
C24_SinglePageJob ==
    ( /\ collRet.op = "finish"
      /\ progress.total_days <= max_days_per_request
      /\ run.collected0 = 0
      /\ run.current_request = 1
      /\ run.page = DayRange(1, progress.total_days) )
    => /\ progress.collected_days = progress.total_days
       /\ progress.status = "completed"
       /\ checkpoint = _save_progress(progress)

C24_Witness ==
    /\ collRet.op = "finish"
    /\ collRet.result = "True"
    /\ progress.total_days = 20
    /\ run.collected0 = 0
    /\ run.current_request = 1
    /\ run.page = DayRange(1, 20)
    /\ stored = DayRange(1, 20)
    /\ progress.collected_days = 20
    /\ progress.status = "completed"

\* C25: within one collection job the pages are requested and persisted
\* strictly in chronological order (each page covers dates later than
\* every page before it), and get_last_daily_date of the instrument is
\* monotonically non-decreasing during the run.
C25_ChronologicalPages ==
    [][ collRet'.op = "page" =>
          /\ ( Count(run.page) > 0 /\ run'.current_request > 1
               /\ Count(run'.page) > 0 /\ run'.total_collected > run.total_collected )
             => run'.page.first > run.page.last
          /\ Count(stored) > 0 =>
                Count(stored') > 0 /\ stored'.last >= stored.last ]_vars

-----------------------------------------------------------------------------
(* The checkpoint file: claim C26 *)

\* C26: a crash at any point of _save_progress leaves the checkpoint file
\* loadable as either the previous or the new checkpoint: _load_progress
\* after the crash never comes back with the progress of a job lost.
C26_CrashSafeSave ==
    [][ ( collRet'.op = "crash" /\ _load_progress(checkpoint) = progress )
        => /\ checkpoint'.kind = "json"
           /\ progress'.status = progress.status
           /\ progress'.total_days = progress.total_days
           /\ progress'.collected_days >= progress.collected_days ]_vars

-----------------------------------------------------------------------------
(* The technical indicators: claims C27 to C30 *)

\* C27: whenever an operation adds price rows for an instrument to the
\* store (here: a page of the backfill), the technical-indicator rows of
\* that instrument are recomputed afterwards from the updated price
\* history, so the newest price row has an indicator row.
C27_IndicatorsFollowRows ==
    [][ ( collRet'.op = "page" /\ run'.total_collected > run.total_collected
          /\ Count(stored') >= MinRows )
        => \E r \in technical_indicators' : r.date = stored'.last ]_vars

\* a float that is a number between 0 and 100
InPercentRange(x) == x.k = "num" /\ 0 <= x.n /\ x.n <= 100 * x.d

\* C28: every RSI value the engine produces lies in [0,100]: for every
\* window of 14 day-over-day deltas, including a window with no losses and
\* a flat window with neither gains nor losses, the result is a number in
\* [0,100], and it is 100 when the average loss is 0.
C28_RsiInRange ==
    \A i \in DOMAIN indRet.df :
        i > RsiPeriod =>
            /\ InPercentRange(indRet.df[i].rsi_14)
            /\ indRet.df[i].loss.n = 0 =>
                  indRet.df[i].rsi_14.n = 100 * indRet.df[i].rsi_14.d

\* C29: given a price series shorter than the minimum window length, the
\* indicator computation does not fail and produces an empty result:
\* _calculate_and_save_indicators writes no technical_indicators row and
\* raises nothing.
C29_ShortSeriesEmpty ==
    ( indRet.op # "none" /\ indRet.outcome # "raise"
      /\ Cardinality(coin_prices.dates) < MinRows )
    => /\ indRet.written = 0
       /\ ~indRet.raised
       /\ technical_indicators = {}

C29_Witness ==
    /\ indRet.op = "_calculate_and_save_indicators"
    /\ Cardinality(coin_prices.dates) = MinRows - 1
    /\ indRet.written = 0
    /\ ~indRet.raised
    /\ technical_indicators = {}

\* C30: for a stored price series of 25 consecutive days the indicator
\* computation produces a non-empty set of indicator records, with ma_7
\* and rsi_14 defined from day 14 onward.
C30_TwentyFiveDays ==
    ( indRet.op # "none" /\ indRet.outcome # "raise"
      /\ Cardinality(coin_prices.dates) = 25 )
    => /\ technical_indicators # {}
       /\ \A d \in coin_prices.dates :
             d >= SetMin(coin_prices.dates) + 13 =>
                \E r \in technical_indicators :
                    /\ r.date = d
                    /\ r.ma_7.k = "num"
                    /\ coin_prices.shape # "flat" => r.rsi_14.k = "num"

-----------------------------------------------------------------------------
(* The progress report: claim C31 *)

\* C31: progress_percentage equals collected_days / total_days * 100 and
\* is 0 when total_days = 0; estimated_time_remaining is defined iff the
\* status is in_progress, collection_start is set and collected_days > 0,
\* and is None in every other state.
C31_ProgressReport ==
    statusRet.op = "get_collection_status" =>
        /\ IF progress.total_days = 0
           THEN statusRet.progress_percentage[1] = 0
           ELSE statusRet.progress_percentage[1] * progress.total_days
                   = progress.collected_days * 100
                        * statusRet.progress_percentage[2]
        /\ statusRet.progress_percentage[2] > 0
        /\ statusRet.estimated_time_remaining # NoTimedelta
              <=> ( /\ progress.status = "in_progress"
                    /\ progress.collection_start # None
                    /\ progress.collected_days > 0 )

C31_Witness ==
    /\ statusRet.op = "get_collection_status"
    /\ progress.status = "in_progress"
    /\ progress.collection_start = "set"
    /\ progress.total_days = 20
    /\ progress.collected_days = 19
    /\ statusRet.elapsed = 90
    /\ statusRet.progress_percentage = <<1900, 20>>
    /\ statusRet.estimated_time_remaining
          = [kind |-> "timedelta", minutes |-> <<90, 19>>]

-----------------------------------------------------------------------------
(* Write failures in a batch: claim C32 *)

\* the records of a batch that can be written
Writable(data) == {i \in DOMAIN data : data[i].date # NoDate}

\* C32: a write failure of one record in a save_daily_data batch is
\* row-scoped: every other record of the batch is still stored, rows stored
\* earlier are unchanged, and the returned count equals the number of
\* records actually written.
C32_RowScopedFailure ==
    [][ (dbRet'.op = "save_daily_data" /\ dbRet'.data # <<>>) =>
          LET data == dbRet'.data
              coin_id == dbRet'.coin_id
          IN  /\ \A i \in Writable(data) :
                    \E r \in table' :
                        /\ r.coin_id = coin_id
                        /\ r.date = data[i].date
                        /\ \E j \in Writable(data) : r = Row(coin_id, data[j])
              /\ \A r \in table :
                    ( r.coin_id # coin_id
                      \/ \A i \in Writable(data) : data[i].date # r.date )
                    => r \in table'
              /\ dbRet'.count = Cardinality(Writable(data)) ]_vars

\* a batch whose second record failed: the first and the third, which have
\* the same key, were written, the row of the other coin is still there,
\* and the count is 2
C32_Witness ==
    /\ dbRet.op = "save_daily_data"
    /\ Len(dbRet.data) = 3
    /\ dbRet.data[1].date = 1
    /\ dbRet.data[2] = NoRecord
    /\ dbRet.data[3].date = 1
    /\ dbRet.count = 2
    /\ dbRet.replaced = 1
    /\ \E r \in table : r.coin_id = dbRet.coin_id /\ r.date = 1
    /\ \E r \in table : r.coin_id # dbRet.coin_id

-----------------------------------------------------------------------------
(* The counters and requests of a backfill job: claims C33 to C36 *)

\* C33: in every reachable state of a backfill job,
\* 0 <= collected_days <= total_days, and collected_days equals the number
\* of distinct dates of the instrument stored by the job (so it is never
\* more than the dates the store holds), also when successive pages return
\* overlapping dates or the job is re-run.
C33_CollectedDaysBounded ==
    progress.status # "absent" =>
        /\ 0 <= progress.collected_days
        /\ progress.collected_days <= progress.total_days
        /\ progress.collected_days <= Count(stored)

\* C34: every page request of a backfill job asks the provider for a
\* number of days d with 1 <= d <= 365, for every page of the sequence and
\* every number of records returned by earlier pages.
C34_PageDaysInRange ==
    collRet.op = "page" =>
        /\ 1 <= collRet.days
        /\ collRet.days <= max_days_per_request

\* C35: collect_bitcoin_data or collect_ethereum_data called on a job whose
\* status is completed returns True and changes nothing: the API counters
\* (so no request is made), the progress in memory, the checkpoint file and
\* the stored rows are the same after the call, and no page loop is started.
C35_CompletedJobUntouched ==
    [][\A total_days \in TotalDays \cup {0}, info_outcome \in ApiOutcomes :
          (progress.status = "completed"
              /\ collect_bitcoin_data_begin(total_days, info_outcome))
          => /\ collRet'.op = "collect_bitcoin_data"
             /\ collRet'.result = "True"
             /\ run'.at = "idle"
             /\ UNCHANGED <<progress, checkpoint, api_stats, stored,
                   sharedVars, raceVars, nextRet>>]_vars

\* collect_bitcoin_data has returned True for a job that was completed, with
\* rows stored and requests counted
C35_Witness ==
    /\ collRet.op = "collect_bitcoin_data"
    /\ collRet.from = "completed"
    /\ collRet.result = "True"
    /\ progress.status = "completed"
    /\ Count(stored) > 0
    /\ api_stats.total_requests > 0
    /\ checkpoint = _save_progress(progress)

\* C36: collect_bitcoin_data and collect_ethereum_data end by returning a
\* boolean and never raise, True iff the final status is completed, from
\* every checkpoint state they can start in (a loaded checkpoint with status
\* pending and no collection_start included); and in every state with
\* status completed both collection_start and collection_end are set.
C36_ReturnsBoolean ==
    /\ collRet.op \in {"collect_bitcoin_data", "finish"}
          /\ run.at = "idle"
          => /\ collRet.result \in {"True", "False"}
             /\ collRet.result = "True" <=> progress.status = "completed"
    /\ progress.status = "completed"
          => /\ progress.collection_start # None
             /\ progress.collection_end # None

-----------------------------------------------------------------------------
(* Two writers of one file: claims C37 and C38 *)

\* the coin of the other collector
OtherCoin(coin_id) == IF coin_id = "bitcoin" THEN "ethereum" ELSE "bitcoin"

\* C37: when the collector of bitcoin and the collector of ethereum
\* interleave their progress saves on the shared checkpoint file, a save of
\* one of them leaves the persisted checkpoint of the other coin as it was:
\* it is neither removed nor rolled back.
C37_OtherCheckpointKept ==
    [][\A coin_id \in Coins :
          ( \/ owner_collect_begin(coin_id)
            \/ \E outcome \in {"ok", "error"} :
                  owner_collect_page(coin_id, outcome)
            \/ owner_collect_finish(coin_id) )
          => ( OtherCoin(coin_id) \in DOMAIN progress_file.coins
               => /\ OtherCoin(coin_id) \in DOMAIN progress_file'.coins
                  /\ progress_file'.coins[OtherCoin(coin_id)]
                         = progress_file.coins[OtherCoin(coin_id)] )]_vars

-----------------------------------------------------------------------------
(* The next scheduled refresh: claim C39 *)

\* the scheduled instants of the hours of a list, on every day
Slots(hours) ==
    {d * MinutesPerDay + hours[i] * 60 : d \in 0..(MaxDay + 1),
                                         i \in DOMAIN hours}

\* the hours of the function a call was made to
HoursOf(op) ==
    IF op = "_get_next_update_time" THEN update_hours
    ELSE crypto_update_hours

\* C39: _get_next_update_time and _get_next_crypto_update_time return the
\* earliest scheduled refresh instant strictly after now: the result is
\* later than now, has minute 0 and an hour of the scheduled set, and no
\* scheduled instant lies strictly between now and the result; after the
\* last slot of today it is the first slot of tomorrow.
C39_NextSlot ==
    nextRet.op # "none" =>
        LET hours == HoursOf(nextRet.op)
            first == SetMin({hours[i] : i \in DOMAIN hours})
            last == SeqMax(hours)
        IN  /\ nextRet.result > nextRet.now
            /\ nextRet.result % 60 = 0
            /\ nextRet.result \in Slots(hours)
            /\ \A slot \in Slots(hours) :
                  ~(nextRet.now < slot /\ slot < nextRet.result)
            /\ TimeOfDay(nextRet.now) >= last * 60
                  => nextRet.result
                         = (DateOf(nextRet.now) + 1) * MinutesPerDay
                               + first * 60

\* both kinds of call happen: at 21:00 sharp the market cache's next slot
\* is 09:00 of tomorrow
C39_Witness ==
    /\ nextRet.op = "_get_next_update_time"
    /\ TimeOfDay(nextRet.now) = 21 * 60
    /\ nextRet.result = (DateOf(nextRet.now) + 1) * MinutesPerDay + 9 * 60

====
